---- MODULE Spec2Model ----
(***************************************************************************)
(* Coverage-diff attribution pipeline of scripts/coverage_analyzer.py.     *)
(*                                                                         *)
(* The state is the content of the two SQLite stores: the read-only master *)
(* store (basic_blocks, functions, cfg_edges, call_edges_static,           *)
(* analyzed_binaries), the coverage input tables (modules, cov_S_blocks,   *)
(* cov_S_edges) and every derived table the analyzer writes, plus the      *)
(* position of main() in its sequence of stages.  Tables are sets of rows; *)
(* a row is a record whose fields carry the column names of the schema.    *)
(***************************************************************************)
EXTENDS Integers, FiniteSets, Sequences, Bags, TLC

VARIABLES
    \* master store (read-only input)
    basic_blocks,        \* rows [binary_id, func_id, bb_rva, bb_size]; bb_size = bb_end_va - bb_start_va
    cfg_edges,           \* rows [binary_id, src_bb_rva, dst_bb_rva, edge_kind]
    call_edges_static,   \* rows [binary_id, src_bb_rva, dst_func_id]
    \* coverage store, input tables
    modules,             \* rows [id, sha256_hash]
    cov_blocks,          \* sample -> rows [module_id, bb_rva]              (cov_A_blocks, cov_B_blocks)
    cov_edges,           \* sample -> rows [module_id, src_bb_rva, dst_bb_rva] (cov_A_edges, cov_B_edges)
    \* inputs of the parser CLI (scripts/coverage_parser.py)
    coverage_file,       \* sample -> the lines of the coverage text file, each a sequence of characters
    module_name_to_id,   \* the dict create_modules_table returns: rows [name, id]
    \* coverage store, derived tables
    module_binary_map,   \* rows [module_id, binary_id]
    rva_to_bb_cache,     \* rows [binary_id, instruction_rva, bb_rva, func_id]
    joined,              \* sample -> rows [binary_id, func_id, bb_rva]     (cov_A_blocks_joined, cov_B_blocks_joined)
    bb_labels,           \* rows [binary_id, func_id, bb_rva, in_A, in_B, is_new]
    graph_B_nodes,       \* rows [binary_id, bb_rva, func_id, is_new, in_A]
    graph_B_edges,       \* rows [binary_id, src_bb_rva, dst_bb_rva, edge_type]
    frontier_edges,      \* rows [binary_id, src_bb_rva, dst_bb_rva, edge_type]
    frontier_targets,    \* rows [binary_id, bb_rva, func_id, frontier_type]
    frontier_reachability, \* rows [binary_id, frontier_bb_rva, new_bb_rva]
    frontier_attribution,  \* rows [binary_id, frontier_bb_rva, attributed_new_bb_count, unique_new_bb_count, shared_new_bb_count, attributed_new_func_count]
    bb_attributed_to,    \* rows [binary_id, new_bb_rva, frontier_bb_rva, is_shared]
    function_unlock_scores, \* rows [binary_id, func_id, func_name, unique_new_bb, shared_new_bb, total_new_bb, frontier_count, strong_frontier_count, weak_frontier_count]
    callsite_unlock_scores, \* rows [binary_id, src_bb_rva, src_func_id, src_func_name, dst_func_id, dst_func_name, unique_new_bb, shared_new_bb, total_new_bb]
    \* locals of main()
    missing,             \* sample -> the list join_coverage_to_blocks returned (missing_A, missing_B), as a bag
    unmapped,            \* the unmapped list map_modules_to_binaries returned
    missing_report,      \* the missing-blocks JSON file: Null until written
    pc,                  \* the stage main() is about to run
    \* the stores as files and schemas
    files,               \* the store files that exist: a subset of StoreFiles
    master_tables,       \* the tables of the master store that exist
    cov_tables,          \* the tables of the coverage store that exist
    \* the invocations of the analyzer
    run,                 \* the number of the current invocation, from 1
    invocations,         \* how many times the analyzer is invoked on the stores
    walk                 \* locals of expand_deterministic_for_sample inside its loops

master == <<basic_blocks, cfg_edges, call_edges_static, master_tables>>
inputs == <<modules, cov_blocks, cov_edges, coverage_file, module_name_to_id>>
\* what no stage of the pipeline changes: the files, the schema of the coverage
\* store once created, the invocation count and the idle loop locals
process == <<files, cov_tables, run, invocations, walk>>
\* the two score tables of aggregate_scores
scores == <<function_unlock_scores, callsite_unlock_scores>>
\* the derived tables of the coverage store
derived == <<module_binary_map, rva_to_bb_cache, joined, bb_labels, graph_B_nodes,
             graph_B_edges, frontier_edges, frontier_targets, frontier_reachability,
             frontier_attribution, bb_attributed_to, function_unlock_scores,
             callsite_unlock_scores>>
vars == <<basic_blocks, cfg_edges, call_edges_static, modules, cov_blocks, cov_edges,
          coverage_file, module_name_to_id, function_unlock_scores, callsite_unlock_scores,
          module_binary_map, rva_to_bb_cache, joined, bb_labels, graph_B_nodes,
          graph_B_edges, frontier_edges, frontier_targets, frontier_reachability,
          frontier_attribution, bb_attributed_to, missing, unmapped, missing_report, pc,
          files, master_tables, cov_tables, run, invocations, walk>>

Samples == {"A", "B"}

\* The synthetic super-root node of G_B: bb_rva = -1, func_id = -1.
SuperRoot == 0 - 1

\* A nullable column holds <<>> for SQL NULL and <<v>> for the value v.
Null == <<>>
Some(v) == <<v>>

(***************************************************************************)
(* main: the store files, the schemas and the handling of a raising stage  *)
(***************************************************************************)

\* the two positional arguments of main()
StoreFiles == {"master_db", "cov_db"}

\* the tables of the master store that the analyzer reads
MasterTables ==
    {"analyzed_binaries", "functions", "basic_blocks", "cfg_edges", "call_edges_static"}

\* the input tables of the coverage store (--blocks-a, --blocks-b, --edges-a, --edges-b)
InputTables == {"modules", "cov_A_blocks", "cov_B_blocks", "cov_A_edges", "cov_B_edges"}

\* the tables that create_analysis_tables creates
DerivedTables ==
    {"module_binary_map", "rva_to_bb_cache", "cov_A_blocks_joined", "cov_B_blocks_joined",
     "bb_labels", "graph_B_nodes", "graph_B_edges", "frontier_edges", "frontier_targets",
     "frontier_reachability", "frontier_attribution", "bb_attributed_to",
     "function_unlock_scores", "callsite_unlock_scores"}

\* Variant: the writes a stage made before it raised are kept.
PersistedOnRaiseKeepingWrites(committed, written) == written

\* The content of a table after a stage raised: main() exits from the except
\* branch and its finally branch closes the connection without commit, so the
\* table holds what the last commit left and the stage's writes are dropped.
PersistedOnRaise(committed, written) == committed

\* if not Path(args.master_db).exists(): sys.exit(1); the same for args.cov_db
check_inputs ==
    /\ pc = "start"
    /\ pc' = IF StoreFiles \subseteq files THEN "create" ELSE "exit_1"
    /\ UNCHANGED <<master, inputs, process, scores, derived, missing, unmapped, missing_report>>

\* CREATE TABLE IF NOT EXISTS for every derived table, then commit
create_analysis_tables ==
    /\ pc = "create"
    /\ cov_tables' = cov_tables \cup DerivedTables
    /\ pc' = "map"
    /\ UNCHANGED <<master, inputs, files, run, invocations, walk, derived,
                   missing, unmapped, missing_report>>

(***************************************************************************)
(* The master store the analyzer is run against.                           *)
(***************************************************************************)

\* analyzed_binaries(binary_id, sha256_hash)
analyzed_binaries ==
    { [binary_id |-> 1, sha256_hash |-> "h1"],
      [binary_id |-> 2, sha256_hash |-> "h2"] }

\* functions(binary_id, func_id, entry_rva, func_name)
functions ==
    { [binary_id |-> 1, func_id |-> 100, entry_rva |-> 2, func_name |-> "f100"],
      [binary_id |-> 1, func_id |-> 200, entry_rva |-> 7, func_name |-> "f200"],
      [binary_id |-> 2, func_id |-> 300, entry_rva |-> 2, func_name |-> "f300"] }

DeterministicKinds == {"fallthrough", "branch_unconditional"}
EdgeKinds == DeterministicKinds \cup {"branch_conditional"}

(***************************************************************************)
(* find_containing_basic_block                                             *)
(***************************************************************************)

\* The cached row for (binary_id, instruction_rva), as a set of at most one row.
CacheLookup(cache, binary_id, instruction_rva) ==
    { c \in cache : c.binary_id = binary_id /\ c.instruction_rva = instruction_rva }

\* SELECT ... FROM basic_blocks WHERE binary_id = ? AND bb_rva = ?
ExactMatch(binary_id, instruction_rva) ==
    { b \in basic_blocks : b.binary_id = binary_id /\ b.bb_rva = instruction_rva }

\* SELECT ... WHERE binary_id = ? AND bb_rva <= ? ORDER BY bb_rva DESC LIMIT 1
GreatestAtOrBelow(binary_id, instruction_rva) ==
    { b \in basic_blocks :
        /\ b.binary_id = binary_id
        /\ b.bb_rva <= instruction_rva
        /\ \A o \in basic_blocks :
              (o.binary_id = binary_id /\ o.bb_rva <= instruction_rva) => o.bb_rva <= b.bb_rva }

\* Variant: the upper bound taken exclusive, the half-open interval of the block.
WithinBoundsExclusive(b, instruction_rva) == instruction_rva < b.bb_rva + b.bb_size

\* if instruction_rva <= bb_rva + bb_size
WithinBounds(b, instruction_rva) == instruction_rva <= b.bb_rva + b.bb_size

\* The two queries against the master store, run when the cache has no row.
LookupMaster(binary_id, instruction_rva) ==
    IF ExactMatch(binary_id, instruction_rva) # {}
    THEN ExactMatch(binary_id, instruction_rva)
    ELSE { b \in GreatestAtOrBelow(binary_id, instruction_rva) : WithinBounds(b, instruction_rva) }

\* The result (bb_rva, func_id) as a set of at most one row; {} is None.
find_containing_basic_block(cache, binary_id, instruction_rva) ==
    IF CacheLookup(cache, binary_id, instruction_rva) # {}
    THEN { [bb_rva |-> c.bb_rva, func_id |-> c.func_id] :
              c \in CacheLookup(cache, binary_id, instruction_rva) }
    ELSE { [bb_rva |-> b.bb_rva, func_id |-> b.func_id] :
              b \in LookupMaster(binary_id, instruction_rva) }

\* The rows that the calls for `keys` (pairs <<binary_id, instruction_rva>>)
\* INSERT OR IGNORE into rva_to_bb_cache.
CacheRows(cache, keys) ==
    UNION { { [binary_id |-> k[1], instruction_rva |-> k[2],
               bb_rva |-> b.bb_rva, func_id |-> b.func_id] :
                 b \in LookupMaster(k[1], k[2]) } :
            k \in { kk \in keys : CacheLookup(cache, kk[1], kk[2]) = {} } }

(***************************************************************************)
(* map_modules_to_binaries                                                 *)
(***************************************************************************)

\* SELECT binary_id FROM analyzed_binaries WHERE sha256_hash = ? (fetchone)
BinaryOfHash(sha256_hash) ==
    { b.binary_id : b \in { a \in analyzed_binaries : a.sha256_hash = sha256_hash } }

\* the list `mapping`
ModuleMapping ==
    { [module_id |-> m.id, binary_id |-> CHOOSE b \in BinaryOfHash(m.sha256_hash) : TRUE] :
        m \in { mm \in modules : BinaryOfHash(mm.sha256_hash) # {} } }

\* the list `unmapped`
UnmappedModules == { m \in modules : BinaryOfHash(m.sha256_hash) = {} }

\* INSERT OR REPLACE INTO module_binary_map (primary key module_id)
InsertOrReplaceMap(table, rows) ==
    { t \in table : \A r \in rows : r.module_id # t.module_id } \cup rows

\* the SELECT on modules or the one on analyzed_binaries names a table that is absent
MapRaises ==
    \/ "modules" \notin cov_tables
    \/ modules # {} /\ "analyzed_binaries" \notin master_tables

\* Variant: main() goes on to the join whatever mapped_count is.
StageAfterMappingUnchecked(mapped_count) == "join_A"

\* main: if mapped_count == 0: sys.exit(1)
StageAfterMapping(mapped_count) == IF mapped_count = 0 THEN "exit_1" ELSE "join_A"

map_modules_to_binaries ==
    /\ pc = "map"
    /\ IF MapRaises
       THEN /\ pc' = "exit_1"
            /\ UNCHANGED <<module_binary_map, unmapped>>
       ELSE /\ module_binary_map' = InsertOrReplaceMap(module_binary_map, ModuleMapping)
            /\ unmapped' = UnmappedModules
            /\ pc' = StageAfterMapping(Cardinality(ModuleMapping))
    /\ UNCHANGED <<master, inputs, process, scores, rva_to_bb_cache, joined, bb_labels, graph_B_nodes,
                   graph_B_edges, frontier_edges, frontier_targets, frontier_reachability,
                   frontier_attribution, bb_attributed_to, missing, missing_report>>

(***************************************************************************)
(* join_coverage_to_blocks                                                 *)
(***************************************************************************)

\* Variant: the join called without an edges table.
CoverageKeysOfBlocks(S) == { <<r.module_id, r.bb_rva>> : r \in cov_blocks[S] }

\* coverage_blocks, deduplicated by processed_blocks: pairs <<module_id, instruction_rva>>
CoverageKeys(S) ==
    { <<r.module_id, r.bb_rva>> : r \in cov_blocks[S] }
      \cup { <<e.module_id, e.src_bb_rva>> : e \in cov_edges[S] }
      \cup { <<e.module_id, e.dst_bb_rva>> : e \in cov_edges[S] }

\* SELECT binary_id FROM module_binary_map WHERE module_id = ?
BinaryOfModule(module_id) ==
    { m.binary_id : m \in { mm \in module_binary_map : mm.module_id = module_id } }

MappedKeys(S) == { k \in CoverageKeys(S) : BinaryOfModule(k[1]) # {} }

\* <<binary_id, instruction_rva>> of every key of a mapped module
ResolverCalls(S) ==
    { <<CHOOSE b \in BinaryOfModule(k[1]) : TRUE, k[2]>> : k \in MappedKeys(S) }

\* the list `joined_data`
JoinedData(S) ==
    UNION { { [binary_id |-> c[1], func_id |-> r.func_id, bb_rva |-> r.bb_rva] :
                r \in find_containing_basic_block(rva_to_bb_cache, c[1], c[2]) } :
            c \in ResolverCalls(S) }

\* Variant: the keys of unmapped modules are skipped without an entry.
MissingBlocksOfMappedModules(S) ==
    { [module_id |-> k[1], binary_id |-> Some(CHOOSE b \in BinaryOfModule(k[1]) : TRUE),
       instruction_rva |-> k[2], reason |-> "not_found_in_static_analysis"] :
          k \in { kk \in MappedKeys(S) :
                    find_containing_basic_block(rva_to_bb_cache,
                        CHOOSE b \in BinaryOfModule(kk[1]) : TRUE, kk[2]) = {} } }

\* the list `missing_blocks`
MissingBlocks(S) ==
    { [module_id |-> k[1], binary_id |-> Null, instruction_rva |-> k[2],
       reason |-> "module_not_mapped"] :
          k \in CoverageKeys(S) \ MappedKeys(S) }
      \cup
    { [module_id |-> k[1], binary_id |-> Some(CHOOSE b \in BinaryOfModule(k[1]) : TRUE),
       instruction_rva |-> k[2], reason |-> "not_found_in_static_analysis"] :
          k \in { kk \in MappedKeys(S) :
                    find_containing_basic_block(rva_to_bb_cache,
                        CHOOSE b \in BinaryOfModule(kk[1]) : TRUE, kk[2]) = {} } }

\* how often a key occurs in the list coverage_blocks: once per row of the blocks
\* table, once per edge as source and once per edge as destination
Occurrences(S, k) ==
    Cardinality({ r \in cov_blocks[S] : <<r.module_id, r.bb_rva>> = k })
      + Cardinality({ e \in cov_edges[S] : <<e.module_id, e.src_bb_rva>> = k })
      + Cardinality({ e \in cov_edges[S] : <<e.module_id, e.dst_bb_rva>> = k })

\* Variant: every occurrence of a key is handled.
TimesHandledUnchecked(occurrences) == occurrences

\* if block_key in processed_blocks: continue
TimesHandled(occurrences) == 1

\* the returned list: the entries of missing_blocks, each as often as it was appended
MissingList(S) ==
    [x \in MissingBlocks(S) |->
        TimesHandled(Occurrences(S, <<x.module_id, x.instruction_rva>>))]

\* INSERT OR IGNORE INTO cov_S_blocks_joined (primary key (binary_id, bb_rva))
InsertOrIgnoreBlocks(table, rows) ==
    table \cup { r \in rows :
                   \A t \in table : ~(t.binary_id = r.binary_id /\ t.bb_rva = r.bb_rva) }

\* a resolver call that finds no cached row queries basic_blocks
ResolverRaises(calls) ==
    /\ "basic_blocks" \notin master_tables
    /\ \E c \in calls : CacheLookup(rva_to_bb_cache, c[1], c[2]) = {}

\* the SELECT on the blocks table or the edges table of the sample, or a resolver
\* call, names a table that is absent; nothing has been written by then
JoinRaises(S) ==
    \/ ("cov_" \o S \o "_blocks") \notin cov_tables
    \/ ("cov_" \o S \o "_edges") \notin cov_tables
    \/ ResolverRaises(ResolverCalls(S))

join_coverage_to_blocks(S) ==
    /\ pc = "join_" \o S
    /\ IF JoinRaises(S)
       THEN /\ pc' = "exit_1"
            /\ UNCHANGED <<joined, rva_to_bb_cache, missing>>
       ELSE /\ joined' = [joined EXCEPT ![S] = InsertOrIgnoreBlocks(joined[S], JoinedData(S))]
            /\ rva_to_bb_cache' = rva_to_bb_cache
                                     \cup CacheRows(rva_to_bb_cache, ResolverCalls(S))
            /\ missing' = [missing EXCEPT ![S] = MissingList(S)]
            /\ pc' = "expand_" \o S
    /\ UNCHANGED <<master, inputs, process, scores, module_binary_map, bb_labels, graph_B_nodes,
                   graph_B_edges, frontier_edges, frontier_targets, frontier_reachability,
                   frontier_attribution, bb_attributed_to, unmapped, missing_report>>

(***************************************************************************)
(* expand_deterministic_for_sample                                         *)
(***************************************************************************)

\* cfg[src]: the cfg_edges rows of a binary leaving src
Successors(binary_id, src) ==
    { e \in cfg_edges : e.binary_id = binary_id /\ e.src_bb_rva = src }

\* Variant: the single successor is followed whatever its edge_kind is.
RECURSIVE WalkAnyKind(_, _, _, _)
WalkAnyKind(binary_id, covered_blocks, current, visited_from_start) ==
    LET successors == Successors(binary_id, current) IN
    IF Cardinality(successors) = 1
    THEN LET e == CHOOSE x \in successors : TRUE IN
         IF /\ e.dst_bb_rva \notin visited_from_start
            /\ e.dst_bb_rva \notin covered_blocks
         THEN {e.dst_bb_rva}
                \cup WalkAnyKind(binary_id, covered_blocks, e.dst_bb_rva,
                                 visited_from_start \cup {e.dst_bb_rva})
         ELSE {}
    ELSE {}

\* The while-queue loop from one start block: the blocks it adds to newly_discovered.
\* A block has at most one deterministic successor, so the queue holds one block.
RECURSIVE Walk(_, _, _, _)
Walk(binary_id, covered_blocks, current, visited_from_start) ==
    LET successors == Successors(binary_id, current) IN
    IF Cardinality(successors) = 1
    THEN LET e == CHOOSE x \in successors : TRUE IN
         IF /\ e.edge_kind \in DeterministicKinds
            /\ e.dst_bb_rva \notin visited_from_start
            /\ e.dst_bb_rva \notin covered_blocks
         THEN {e.dst_bb_rva}
                \cup Walk(binary_id, covered_blocks, e.dst_bb_rva,
                          visited_from_start \cup {e.dst_bb_rva})
         ELSE {}
    ELSE {}

CoveredBlocks(S, binary_id) == { r.bb_rva : r \in { j \in joined[S] : j.binary_id = binary_id } }

\* Variant: only the direct successors of the covered blocks are collected.
NewlyDiscoveredOneStep(S, binary_id) ==
    { e.dst_bb_rva : e \in { x \in cfg_edges :
                                /\ x.binary_id = binary_id
                                /\ x.src_bb_rva \in CoveredBlocks(S, binary_id)
                                /\ x.edge_kind \in DeterministicKinds
                                /\ Successors(binary_id, x.src_bb_rva) = {x} } }
      \ CoveredBlocks(S, binary_id)

NewlyDiscovered(S, binary_id) ==
    UNION { Walk(binary_id, CoveredBlocks(S, binary_id), start_bb, {start_bb}) :
              start_bb \in CoveredBlocks(S, binary_id) }

\* Variant: every discovered address is inserted, without the basic_blocks lookup.
BlocksToAddUnchecked(S, binary_id) ==
    { [binary_id |-> binary_id, func_id |-> SuperRoot, bb_rva |-> bb_rva] :
        bb_rva \in NewlyDiscovered(S, binary_id) }

\* blocks_to_add: a discovered block is kept only if basic_blocks has a row for it
BlocksToAdd(S, binary_id) ==
    UNION { { [binary_id |-> binary_id, func_id |-> b.func_id, bb_rva |-> bb_rva] :
                b \in ExactMatch(binary_id, bb_rva) } :
            bb_rva \in NewlyDiscovered(S, binary_id) }

\* the SELECT on cfg_edges of the first binary, or the func_id lookup of the first
\* discovered block, names a table that is absent; nothing has been written by then
ExpandRaises(S) ==
    \/ joined[S] # {} /\ "cfg_edges" \notin master_tables
    \/ /\ "basic_blocks" \notin master_tables
       /\ \E j \in joined[S] : NewlyDiscovered(S, j.binary_id) # {}

\* the stage main() runs after the expansion of a sample
StageAfterExpansion(S) == IF S = "A" THEN "join_B" ELSE "report"

expand_deterministic_for_sample(S) ==
    /\ pc = "expand_" \o S
    /\ IF ExpandRaises(S)
       THEN /\ pc' = "exit_1"
            /\ UNCHANGED joined
       ELSE /\ joined' = [joined EXCEPT ![S] =
                   InsertOrIgnoreBlocks(joined[S],
                       UNION { BlocksToAdd(S, binary_id) :
                                 binary_id \in { j.binary_id : j \in joined[S] } })]
            /\ pc' = StageAfterExpansion(S)
    /\ UNCHANGED <<master, inputs, process, scores, module_binary_map, rva_to_bb_cache, bb_labels,
                   graph_B_nodes, graph_B_edges, frontier_edges, frontier_targets,
                   frontier_reachability, frontier_attribution, bb_attributed_to,
                   missing, unmapped, missing_report>>

(***************************************************************************)
(* main: the missing-blocks report                                         *)
(***************************************************************************)

write_missing_report ==
    /\ pc = "report"
    /\ missing_report' = Some([unmapped_modules |-> unmapped,
                               sample_A |-> missing["A"],
                               sample_B |-> missing["B"],
                               total_missing |-> BagCardinality(missing["A"])
                                                   + BagCardinality(missing["B"])])
    /\ pc' = "labels"
    /\ UNCHANGED <<master, inputs, process, scores, module_binary_map, rva_to_bb_cache, joined, bb_labels,
                   graph_B_nodes, graph_B_edges, frontier_edges, frontier_targets,
                   frontier_reachability, frontier_attribution, bb_attributed_to,
                   missing, unmapped>>

(***************************************************************************)
(* compute_diff_labels                                                     *)
(***************************************************************************)

\* Variant: the labels are taken from what the joins recorded, without the blocks
\* the expansions added.
LabelInputBeforeExpansion ==
    { [binary_id |-> j.binary_id, func_id |-> j.func_id, bb_rva |-> j.bb_rva,
       in_A |-> 1, in_B |-> 0] : j \in JoinedData("A") }
      \cup
    { [binary_id |-> j.binary_id, func_id |-> j.func_id, bb_rva |-> j.bb_rva,
       in_A |-> 0, in_B |-> 1] : j \in JoinedData("B") }

\* the UNION ALL subquery
LabelInput ==
    { [binary_id |-> j.binary_id, func_id |-> j.func_id, bb_rva |-> j.bb_rva,
       in_A |-> 1, in_B |-> 0] : j \in joined["A"] }
      \cup
    { [binary_id |-> j.binary_id, func_id |-> j.func_id, bb_rva |-> j.bb_rva,
       in_A |-> 0, in_B |-> 1] : j \in joined["B"] }

Max01(s) == IF 1 \in s THEN 1 ELSE 0

\* Variant: is_new taken from in_B alone.
IsNewOfInBOnly(in_A, in_B) == IF in_B = 1 THEN 1 ELSE 0

\* CASE WHEN MAX(in_B) = 1 AND MAX(in_A) = 0 THEN 1 ELSE 0 END
IsNewOf(in_A, in_B) == IF in_B = 1 /\ in_A = 0 THEN 1 ELSE 0

\* One row per group of GROUP BY binary_id, bb_rva.  func_id is a bare column:
\* SQLite takes it from a row of the group, and the rows of a group carry the
\* func_id of the same basic_blocks row.
LabelRows ==
    { LET g == { r \in LabelInput : r.binary_id = k[1] /\ r.bb_rva = k[2] }
          a == Max01({ r.in_A : r \in g })
          b == Max01({ r.in_B : r \in g })
      IN [binary_id |-> k[1], func_id |-> (CHOOSE r \in g : TRUE).func_id, bb_rva |-> k[2],
          in_A |-> a, in_B |-> b, is_new |-> IsNewOf(a, b)] :
        k \in { <<r.binary_id, r.bb_rva>> : r \in LabelInput } }

\* two rows agree on the columns of a primary key
SameKey(r, t, key) == \A column \in key : r[column] = t[column]

\* a plain INSERT of `rows` into `table` fails with sqlite3.IntegrityError (UNIQUE
\* constraint failed) when the table holds a row with the primary key of one of them
InsertRaises(table, rows, key) == \E r \in rows, t \in table : SameKey(r, t, key)

\* INSERT INTO bb_labels, primary key (binary_id, bb_rva)
LabelsRaises == InsertRaises(bb_labels, LabelRows, {"binary_id", "bb_rva"})

compute_diff_labels ==
    /\ pc = "labels"
    /\ IF LabelsRaises
       THEN /\ pc' = "exit_1"
            /\ UNCHANGED bb_labels
       ELSE /\ bb_labels' = bb_labels \cup LabelRows
            /\ pc' = "graph"
    /\ UNCHANGED <<master, inputs, process, scores, module_binary_map, rva_to_bb_cache, joined,
                   graph_B_nodes, graph_B_edges, frontier_edges, frontier_targets,
                   frontier_reachability, frontier_attribution, bb_attributed_to,
                   missing, unmapped, missing_report>>

(***************************************************************************)
(* build_executed_graph                                                    *)
(***************************************************************************)

\* Variant: the node INSERT without its WHERE in_B = 1.
GraphNodeRowsOfEveryLabel ==
    { [binary_id |-> l.binary_id, bb_rva |-> l.bb_rva, func_id |-> l.func_id,
       is_new |-> l.is_new, in_A |-> l.in_A] : l \in bb_labels }
      \cup
    { [binary_id |-> l.binary_id, bb_rva |-> SuperRoot, func_id |-> SuperRoot,
       is_new |-> 0, in_A |-> 1] : l \in bb_labels }

\* INSERT INTO graph_B_nodes ... FROM bb_labels WHERE in_B = 1, and the super-roots
GraphNodeRows ==
    { [binary_id |-> l.binary_id, bb_rva |-> l.bb_rva, func_id |-> l.func_id,
       is_new |-> l.is_new, in_A |-> l.in_A] : l \in { x \in bb_labels : x.in_B = 1 } }
      \cup
    { [binary_id |-> l.binary_id, bb_rva |-> SuperRoot, func_id |-> SuperRoot,
       is_new |-> 0, in_A |-> 1] : l \in bb_labels }

\* INSERT INTO graph_B_edges SELECT binary_id, -1, bb_rva, 'super_root' FROM bb_labels WHERE in_A = 1
SuperRootEdges ==
    { [binary_id |-> l.binary_id, src_bb_rva |-> SuperRoot, dst_bb_rva |-> l.bb_rva,
       edge_type |-> "super_root"] : l \in { x \in bb_labels : x.in_A = 1 } }

\* b_nodes: SELECT binary_id, bb_rva FROM graph_B_nodes WHERE bb_rva != -1
BNodes(nodes) == { <<n.binary_id, n.bb_rva>> : n \in { x \in nodes : x.bb_rva # SuperRoot } }

\* the list `cfg_edges` of the per-binary loop, over all binaries of bb_labels
CfgGraphEdges(b_nodes) ==
    { [binary_id |-> e.binary_id, src_bb_rva |-> e.src_bb_rva, dst_bb_rva |-> e.dst_bb_rva,
       edge_type |-> "cfg_" \o e.edge_kind] :
        e \in { x \in cfg_edges :
                  /\ x.binary_id \in { l.binary_id : l \in bb_labels }
                  /\ x.edge_kind \in DeterministicKinds
                  /\ <<x.binary_id, x.src_bb_rva>> \in b_nodes
                  /\ <<x.binary_id, x.dst_bb_rva>> \in b_nodes } }

\* SELECT entry_rva FROM functions WHERE binary_id = ? AND func_id = ?
EntryRva(binary_id, func_id) ==
    { f.entry_rva : f \in { x \in functions : x.binary_id = binary_id /\ x.func_id = func_id } }

\* the list `call_edges`
CallGraphEdges(b_nodes) ==
    UNION { { [binary_id |-> c.binary_id, src_bb_rva |-> c.src_bb_rva, dst_bb_rva |-> dst_rva,
               edge_type |-> "call_direct"] :
                dst_rva \in { d \in EntryRva(c.binary_id, c.dst_func_id) :
                                /\ <<c.binary_id, c.src_bb_rva>> \in b_nodes
                                /\ <<c.binary_id, d>> \in b_nodes } } :
            c \in { x \in call_edges_static :
                      x.binary_id \in { l.binary_id : l \in bb_labels } } }

\* SELECT m.binary_id, e.src_bb_rva, e.dst_bb_rva FROM cov_B_edges e JOIN module_binary_map m
ObservedRows ==
    UNION { { [binary_id |-> b, src |-> e.src_bb_rva, dst |-> e.dst_bb_rva] :
                b \in BinaryOfModule(e.module_id) } : e \in cov_edges["B"] }

\* Variant: every observed edge typed as a conditional branch.
ObservedEdgeTypeConditional(src_instruction_rva, src_bb_rva) == "observed_conditional"

\* edge_type of an observed edge whose source RVA resolved to src_bb_rva
ObservedEdgeType(src_instruction_rva, src_bb_rva) ==
    IF src_instruction_rva # src_bb_rva
    THEN "observed_return_continuation"
    ELSE "observed_conditional"

\* the list `observed_edges`
ObservedGraphEdges(b_nodes) ==
    UNION { { [binary_id |-> o.binary_id, src_bb_rva |-> p[1].bb_rva, dst_bb_rva |-> p[2].bb_rva,
               edge_type |-> ObservedEdgeType(o.src, p[1].bb_rva)] :
                p \in { q \in find_containing_basic_block(rva_to_bb_cache, o.binary_id, o.src)
                              \X find_containing_basic_block(rva_to_bb_cache, o.binary_id, o.dst) :
                          /\ <<o.binary_id, q[1].bb_rva>> \in b_nodes
                          /\ <<o.binary_id, q[2].bb_rva>> \in b_nodes } } :
            o \in ObservedRows }

IsSuperRootType(edge_type) == edge_type \in {"super_root", "super_root_orphan"}

\* Variant: the subquery without its correlation on binary_id.
EnteredBlocksOfAnyBinary(edges, binary_id) ==
    { e.dst_bb_rva : e \in { x \in edges : ~IsSuperRootType(x.edge_type) } }

\* the NOT IN subquery: destinations of the edges of a binary that are not super-root edges
EnteredBlocks(edges, binary_id) ==
    { e.dst_bb_rva : e \in { x \in edges : x.binary_id = binary_id
                                            /\ ~IsSuperRootType(x.edge_type) } }

\* INSERT ... 'super_root_orphan' FROM bb_labels bb WHERE bb.is_new = 1 AND bb.bb_rva NOT IN (...)
OrphanEdges(edges) ==
    { [binary_id |-> l.binary_id, src_bb_rva |-> SuperRoot, dst_bb_rva |-> l.bb_rva,
       edge_type |-> "super_root_orphan"] :
        l \in { x \in bb_labels : x.is_new = 1
                                   /\ x.bb_rva \notin EnteredBlocks(edges, x.binary_id) } }

NodeKey == {"binary_id", "bb_rva"}
EdgeKey == {"binary_id", "src_bb_rva", "dst_bb_rva", "edge_type"}

\* the resolver calls for the endpoints of the observed edges
ObservedCalls ==
    { <<o.binary_id, o.src>> : o \in ObservedRows }
      \cup { <<o.binary_id, o.dst>> : o \in ObservedRows }

\* one of the three plain INSERTs that open the stage fails on an existing row
GraphInsertRaises ==
    \/ InsertRaises(graph_B_nodes, GraphNodeRows, NodeKey)
    \/ InsertRaises(graph_B_edges, SuperRootEdges, EdgeKey)

\* a SELECT of the per-binary loop or of the observed edges names a table that is
\* absent; the nodes and the super_root edges have been inserted by then
GraphReadRaises ==
    \/ /\ bb_labels # {}
       /\ \/ "cfg_edges" \notin master_tables
          \/ "call_edges_static" \notin master_tables
          \/ /\ "functions" \notin master_tables
             /\ \E c \in call_edges_static : \E l \in bb_labels : l.binary_id = c.binary_id
    \/ "cov_B_edges" \notin cov_tables
    \/ ResolverRaises(ObservedCalls)

build_executed_graph ==
    /\ pc = "graph"
    /\ LET nodes == graph_B_nodes \cup GraphNodeRows
           b_nodes == BNodes(nodes)
           edges == graph_B_edges \cup SuperRootEdges \cup CfgGraphEdges(b_nodes)
                      \cup CallGraphEdges(b_nodes) \cup ObservedGraphEdges(b_nodes)
       IN IF GraphInsertRaises
          THEN /\ pc' = "exit_1"
               /\ UNCHANGED <<graph_B_nodes, graph_B_edges, rva_to_bb_cache>>
          ELSE IF GraphReadRaises \/ InsertRaises(graph_B_edges, OrphanEdges(edges), EdgeKey)
          THEN /\ pc' = "exit_1"
               /\ graph_B_nodes' = PersistedOnRaise(graph_B_nodes, nodes)
               /\ graph_B_edges' = PersistedOnRaise(graph_B_edges,
                                                     graph_B_edges \cup SuperRootEdges)
               /\ UNCHANGED rva_to_bb_cache
          ELSE /\ graph_B_nodes' = nodes
               /\ graph_B_edges' = edges \cup OrphanEdges(edges)
               /\ rva_to_bb_cache' = rva_to_bb_cache
                                        \cup CacheRows(rva_to_bb_cache, ObservedCalls)
               /\ pc' = "frontier"
    /\ UNCHANGED <<master, inputs, process, scores, module_binary_map, joined, bb_labels, frontier_edges,
                   frontier_targets, frontier_reachability, frontier_attribution,
                   bb_attributed_to, missing, unmapped, missing_report>>

(***************************************************************************)
(* identify_frontier                                                       *)
(***************************************************************************)

\* the bb_labels row of a block, as a set of at most one row
LabelOf(binary_id, bb_rva) ==
    { l \in bb_labels : l.binary_id = binary_id /\ l.bb_rva = bb_rva }

\* Variant: the join without the condition lbl_src.in_A = 1.
FrontierEdgesAnyToNew ==
    { e \in graph_B_edges :
        /\ LabelOf(e.binary_id, e.src_bb_rva) # {}
        /\ \E ld \in LabelOf(e.binary_id, e.dst_bb_rva) : ld.is_new = 1
        /\ e.edge_type # "super_root" }

\* Find frontier edges: A-covered -> new, edge_type != 'super_root'
FrontierEdgesAToNew ==
    { e \in graph_B_edges :
        /\ \E ls \in LabelOf(e.binary_id, e.src_bb_rva) : ls.in_A = 1
        /\ \E ld \in LabelOf(e.binary_id, e.dst_bb_rva) : ld.is_new = 1
        /\ e.edge_type # "super_root" }

\* Also add orphaned new blocks
FrontierEdgesOrphan == { e \in graph_B_edges : e.edge_type = "super_root_orphan" }

\* frontier_candidates: SELECT DISTINCT e.binary_id, e.dst_bb_rva, lbl.func_id
FrontierCandidates(fedges) ==
    UNION { { [binary_id |-> e.binary_id, bb_rva |-> e.dst_bb_rva, func_id |-> l.func_id] :
                l \in LabelOf(e.binary_id, e.dst_bb_rva) } : e \in fedges }

\* SELECT COUNT(*) ... WHERE dst_bb_rva = ? AND edge_type = 'super_root_orphan'
OrphanCount(binary_id, bb_rva) ==
    Cardinality({ e \in graph_B_edges : /\ e.binary_id = binary_id
                                        /\ e.dst_bb_rva = bb_rva
                                        /\ e.edge_type = "super_root_orphan" })

\* incoming_edges: the labels of the sources of the incoming edges that are not
\* super-root edges (edge_type NOT LIKE 'super_root%')
IncomingSourceLabels(binary_id, bb_rva) ==
    UNION { LabelOf(e.binary_id, e.src_bb_rva) :
              e \in { x \in graph_B_edges : /\ x.binary_id = binary_id
                                            /\ x.dst_bb_rva = bb_rva
                                            /\ ~IsSuperRootType(x.edge_type) } }

\* Variant: the classification without the has_new_edge test.
RegularFrontierTypeIgnoringNew(binary_id, bb_rva) ==
    IF \E l \in IncomingSourceLabels(binary_id, bb_rva) : l.in_A = 1 THEN "strong" ELSE "weak"

\* the regular classification of a frontier target that is not orphaned
RegularFrontierType(binary_id, bb_rva) ==
    LET has_a_edge == \E l \in IncomingSourceLabels(binary_id, bb_rva) : l.in_A = 1
        has_new_edge == \E l \in IncomingSourceLabels(binary_id, bb_rva) : l.is_new = 1
    IN IF has_a_edge /\ ~has_new_edge THEN "strong" ELSE "weak"

FrontierType(binary_id, bb_rva) ==
    IF OrphanCount(binary_id, bb_rva) > 0
    THEN "weak"
    ELSE RegularFrontierType(binary_id, bb_rva)

identify_frontier ==
    /\ pc = "frontier"
    /\ LET fedges == frontier_edges \cup FrontierEdgesAToNew \cup FrontierEdgesOrphan
           frontier_data ==
                { [binary_id |-> c.binary_id, bb_rva |-> c.bb_rva, func_id |-> c.func_id,
                   frontier_type |-> FrontierType(c.binary_id, c.bb_rva)] :
                    c \in FrontierCandidates(fedges) }
       IN IF InsertRaises(frontier_edges, FrontierEdgesAToNew \cup FrontierEdgesOrphan, EdgeKey)
          THEN /\ pc' = "exit_1"
               /\ UNCHANGED <<frontier_edges, frontier_targets>>
          ELSE IF InsertRaises(frontier_targets, frontier_data, NodeKey)
          THEN /\ pc' = "exit_1"
               /\ frontier_edges' = PersistedOnRaise(frontier_edges, fedges)
               /\ UNCHANGED frontier_targets
          ELSE /\ frontier_edges' = fedges
               /\ frontier_targets' = frontier_targets \cup frontier_data
               /\ pc' = "reachability"
    /\ UNCHANGED <<master, inputs, process, scores, module_binary_map, rva_to_bb_cache, joined, bb_labels,
                   graph_B_nodes, graph_B_edges, frontier_reachability, frontier_attribution,
                   bb_attributed_to, missing, unmapped, missing_report>>

(***************************************************************************)
(* compute_reachability                                                    *)
(***************************************************************************)

\* SELECT DISTINCT binary_id FROM graph_B_nodes
GraphBinaries == { n.binary_id : n \in graph_B_nodes }

\* adjacency[src], built from every graph_B_edges row of the binary
Adjacency(binary_id, src) ==
    { e.dst_bb_rva : e \in { x \in graph_B_edges : x.binary_id = binary_id
                                                   /\ x.src_bb_rva = src } }

\* new_blocks: SELECT bb_rva FROM bb_labels WHERE binary_id = ? AND is_new = 1
NewBlocks(binary_id) ==
    { l.bb_rva : l \in { x \in bb_labels : x.binary_id = binary_id /\ x.is_new = 1 } }

\* frontier_targets of the binary
FrontierTargetsOf(binary_id) ==
    { t.bb_rva : t \in { x \in frontier_targets : x.binary_id = binary_id } }

RECURSIVE SetToSeq(_)
SetToSeq(s) ==
    IF s = {} THEN <<>>
    ELSE LET x == CHOOSE y \in s : TRUE IN <<x>> \o SetToSeq(s \ {x})

\* Variant: a BFS that follows the edges of new blocks only.
RECURSIVE BFSThroughNewOnly(_, _, _, _)
BFSThroughNewOnly(binary_id, queue, visited, reachable_new) ==
    IF queue = <<>>
    THEN reachable_new
    ELSE LET current == Head(queue)
             fresh == IF current \in NewBlocks(binary_id)
                      THEN Adjacency(binary_id, current) \ visited
                      ELSE {}
         IN BFSThroughNewOnly(binary_id,
                Tail(queue) \o SetToSeq(fresh),
                visited \cup fresh,
                IF current \in NewBlocks(binary_id)
                THEN reachable_new \cup {current}
                ELSE reachable_new)

\* The while-queue loop of one BFS; its value is reachable_new.
RECURSIVE BFS(_, _, _, _)
BFS(binary_id, queue, visited, reachable_new) ==
    IF queue = <<>>
    THEN reachable_new
    ELSE LET current == Head(queue)
             fresh == Adjacency(binary_id, current) \ visited
         IN BFS(binary_id,
                Tail(queue) \o SetToSeq(fresh),
                visited \cup fresh,
                IF current \in NewBlocks(binary_id)
                THEN reachable_new \cup {current}
                ELSE reachable_new)

\* Variant: the start block is marked visited but never examined.
ReachableNewWithoutStart(binary_id, frontier_bb) ==
    BFS(binary_id, SetToSeq(Adjacency(binary_id, frontier_bb) \ {frontier_bb}),
        {frontier_bb} \cup Adjacency(binary_id, frontier_bb), {})

\* reachable_new of the BFS from one frontier target
ReachableNew(binary_id, frontier_bb) == BFS(binary_id, <<frontier_bb>>, {frontier_bb}, {})

\* reachability_data over all binaries
ReachabilityData ==
    UNION { UNION { { [binary_id |-> binary_id, frontier_bb_rva |-> frontier_bb,
                       new_bb_rva |-> new_bb] :
                        new_bb \in ReachableNew(binary_id, frontier_bb) } :
                    frontier_bb \in FrontierTargetsOf(binary_id) } :
            binary_id \in GraphBinaries }

compute_reachability ==
    /\ pc = "reachability"
    /\ frontier_reachability' = frontier_reachability \cup ReachabilityData
    /\ pc' = "attribution"
    /\ UNCHANGED <<master, inputs, process, scores, module_binary_map, rva_to_bb_cache, joined, bb_labels,
                   graph_B_nodes, graph_B_edges, frontier_edges, frontier_targets,
                   frontier_attribution, bb_attributed_to, missing, unmapped, missing_report>>

(***************************************************************************)
(* compute_attribution                                                     *)
(***************************************************************************)

\* new_block_to_frontiers[new_bb]: one entry per frontier_reachability row
FrontiersOf(binary_id, new_bb) ==
    { r.frontier_bb_rva : r \in { x \in frontier_reachability :
                                      x.binary_id = binary_id /\ x.new_bb_rva = new_bb } }

\* the keys of new_block_to_frontiers
AttributedBlocks(binary_id) ==
    { r.new_bb_rva : r \in { x \in frontier_reachability : x.binary_id = binary_id } }

\* Variant: the first frontier taken as the owner whatever len(frontiers) is.
BlockAttributionFirstFrontier(binary_id, new_bb) ==
    [binary_id |-> binary_id, new_bb_rva |-> new_bb,
     frontier_bb_rva |-> Some(CHOOSE f \in FrontiersOf(binary_id, new_bb) : TRUE),
     is_shared |-> 0]

\* block_attribution[new_bb] = (frontier, is_shared)
BlockAttribution(binary_id, new_bb) ==
    IF Cardinality(FrontiersOf(binary_id, new_bb)) = 1
    THEN [binary_id |-> binary_id, new_bb_rva |-> new_bb,
          frontier_bb_rva |-> Some(CHOOSE f \in FrontiersOf(binary_id, new_bb) : TRUE),
          is_shared |-> 0]
    ELSE [binary_id |-> binary_id, new_bb_rva |-> new_bb,
          frontier_bb_rva |-> Null, is_shared |-> 1]

\* frontier_attribution_map[frontier]['unique']
UniqueSet(binary_id, frontier) ==
    { n \in AttributedBlocks(binary_id) : FrontiersOf(binary_id, n) = {frontier} }

\* Variant: every block the frontier reaches is added to its shared set.
SharedSetOfAllReached(binary_id, frontier) ==
    { n \in AttributedBlocks(binary_id) : frontier \in FrontiersOf(binary_id, n) }

\* frontier_attribution_map[frontier]['shared']
SharedSet(binary_id, frontier) ==
    { n \in AttributedBlocks(binary_id) :
        Cardinality(FrontiersOf(binary_id, n)) # 1 /\ frontier \in FrontiersOf(binary_id, n) }

\* frontier_attribution_map[frontier]['funcs']; new_blocks[new_bb] is the func_id of bb_labels
FuncSet(binary_id, frontier) ==
    { l.func_id : l \in UNION { LabelOf(binary_id, n) :
                                   n \in UniqueSet(binary_id, frontier)
                                           \cup SharedSet(binary_id, frontier) } }

\* attr_data: one row per key of frontier_attribution_map
AttrData(binary_id) ==
    { [binary_id |-> binary_id, frontier_bb_rva |-> f,
       attributed_new_bb_count |-> Cardinality(UniqueSet(binary_id, f))
                                     + Cardinality(SharedSet(binary_id, f)),
       unique_new_bb_count |-> Cardinality(UniqueSet(binary_id, f)),
       shared_new_bb_count |-> Cardinality(SharedSet(binary_id, f)),
       attributed_new_func_count |-> Cardinality(FuncSet(binary_id, f))] :
        f \in UNION { FrontiersOf(binary_id, n) : n \in AttributedBlocks(binary_id) } }

\* INSERT OR REPLACE INTO frontier_attribution (primary key (binary_id, frontier_bb_rva))
InsertOrReplaceAttribution(table, rows) ==
    { t \in table : \A r \in rows : ~(r.binary_id = t.binary_id
                                        /\ r.frontier_bb_rva = t.frontier_bb_rva) } \cup rows

\* INSERT OR REPLACE INTO bb_attributed_to (primary key (binary_id, new_bb_rva))
InsertOrReplaceBlockAttr(table, rows) ==
    { t \in table : \A r \in rows : ~(r.binary_id = t.binary_id
                                        /\ r.new_bb_rva = t.new_bb_rva) } \cup rows

compute_attribution ==
    /\ pc = "attribution"
    /\ frontier_attribution' =
          InsertOrReplaceAttribution(frontier_attribution,
              UNION { AttrData(binary_id) : binary_id \in GraphBinaries })
    /\ bb_attributed_to' =
          InsertOrReplaceBlockAttr(bb_attributed_to,
              UNION { { BlockAttribution(binary_id, n) : n \in AttributedBlocks(binary_id) } :
                      binary_id \in GraphBinaries })
    /\ pc' = "scores"
    /\ UNCHANGED <<master, inputs, process, scores, module_binary_map, rva_to_bb_cache, joined, bb_labels,
                   graph_B_nodes, graph_B_edges, frontier_edges, frontier_targets,
                   frontier_reachability, missing, unmapped, missing_report>>

(***************************************************************************)
(* aggregate_scores                                                        *)
(***************************************************************************)

\* LEFT JOIN bb_attributed_to ba: the is_shared of the row of the block, NULL without one
SharedFlagOf(binary_id, new_bb_rva) ==
    LET ba == { x \in bb_attributed_to : x.binary_id = binary_id /\ x.new_bb_rva = new_bb_rva }
    IN IF ba = {} THEN {Null} ELSE { Some(x.is_shared) : x \in ba }

\* FROM bb_labels bb JOIN frontier_attribution fa JOIN frontier_targets ft
\* JOIN frontier_reachability fr LEFT JOIN bb_attributed_to ba
FunctionJoinRows ==
    UNION { UNION { UNION { UNION {
        { [binary_id |-> bb.binary_id, func_id |-> bb.func_id,
           frontier_bb_rva |-> fa.frontier_bb_rva, frontier_type |-> ft.frontier_type,
           new_bb_rva |-> fr.new_bb_rva, is_shared |-> sh] :
            sh \in SharedFlagOf(fr.binary_id, fr.new_bb_rva) } :
        fr \in { x \in frontier_reachability : /\ x.binary_id = fa.binary_id
                                                /\ x.frontier_bb_rva = fa.frontier_bb_rva } } :
        ft \in { x \in frontier_targets : /\ x.binary_id = fa.binary_id
                                           /\ x.bb_rva = fa.frontier_bb_rva } } :
        fa \in { x \in frontier_attribution : /\ x.binary_id = bb.binary_id
                                               /\ x.frontier_bb_rva = bb.bb_rva } } :
        bb \in bb_labels }

\* Variant: the frontier targets counted once per joined row instead of DISTINCT.
CountFrontiersPerRow(rows) == Cardinality(rows)

\* COUNT(DISTINCT fa.frontier_bb_rva)
CountFrontiers(rows) == Cardinality({ r.frontier_bb_rva : r \in rows })

\* the SELECT of the function query: one row per group (binary_id, func_id)
FunctionScoreRows ==
    { LET G == { r \in FunctionJoinRows : r.binary_id = g[1] /\ r.func_id = g[2] } IN
      [binary_id |-> g[1], func_id |-> g[2], func_name |-> "",
       unique_new_bb |-> Cardinality({ r.new_bb_rva : r \in { x \in G : x.is_shared = Some(0) } }),
       shared_new_bb |-> Cardinality({ r.new_bb_rva : r \in { x \in G : x.is_shared = Some(1) } }),
       total_new_bb |-> Cardinality({ r.new_bb_rva : r \in G }),
       frontier_count |-> CountFrontiers(G),
       strong_frontier_count |-> CountFrontiers({ x \in G : x.frontier_type = "strong" }),
       weak_frontier_count |-> CountFrontiers({ x \in G : x.frontier_type = "weak" })] :
      g \in { <<r.binary_id, r.func_id>> : r \in FunctionJoinRows } }

\* SELECT func_name FROM functions WHERE binary_id = ? AND func_id = ? (fetchone)
FuncNameOf(binary_id, func_id) ==
    { f.func_name : f \in { x \in functions : x.binary_id = binary_id /\ x.func_id = func_id } }

\* UPDATE function_unlock_scores SET func_name = ? for every function that has a name
WithFuncName(table) ==
    { IF FuncNameOf(r.binary_id, r.func_id) = {}
      THEN r
      ELSE [r EXCEPT !.func_name = CHOOSE n \in FuncNameOf(r.binary_id, r.func_id) : TRUE] :
      r \in table }

\* FROM frontier_edges fe JOIN frontier_attribution fa JOIN bb_labels bb_src
\* JOIN bb_labels bb_dst WHERE fe.edge_type NOT LIKE 'super_root%'
CallsiteJoinRows ==
    UNION { UNION { UNION {
        { [edge |-> fe, binary_id |-> fe.binary_id, src_bb_rva |-> fe.src_bb_rva,
           src_func_id |-> bb_src.func_id, dst_func_id |-> bb_dst.func_id,
           unique_new_bb |-> fa.unique_new_bb_count,
           shared_new_bb |-> fa.shared_new_bb_count,
           total_new_bb |-> fa.attributed_new_bb_count] :
            bb_dst \in LabelOf(fe.binary_id, fe.dst_bb_rva) } :
        bb_src \in LabelOf(fe.binary_id, fe.src_bb_rva) } :
        fa \in { x \in frontier_attribution : /\ x.binary_id = fe.binary_id
                                               /\ x.frontier_bb_rva = fe.dst_bb_rva } } :
        fe \in { x \in frontier_edges : ~IsSuperRootType(x.edge_type) } }

\* SUM(column) over the joined rows of a group
RECURSIVE SumOf(_, _)
SumOf(rows, column) ==
    IF rows = {}
    THEN 0
    ELSE LET r == CHOOSE x \in rows : TRUE IN r[column] + SumOf(rows \ {r}, column)

\* Variant: the callsite rows grouped by (binary_id, src_bb_rva) only.
CallsiteGroupOfSource(r) == <<r.binary_id, r.src_bb_rva, 0, r.src_func_id>>

\* GROUP BY fe.binary_id, fe.src_bb_rva, bb_dst.func_id, bb_src.func_id
CallsiteGroup(r) == <<r.binary_id, r.src_bb_rva, r.dst_func_id, r.src_func_id>>

\* the SELECT of the callsite query: one row per group
CallsiteScoreRows ==
    { LET G == { r \in CallsiteJoinRows : CallsiteGroup(r) = CallsiteGroup(g) } IN
      [binary_id |-> g.binary_id, src_bb_rva |-> g.src_bb_rva,
       src_func_id |-> g.src_func_id, src_func_name |-> Null,
       dst_func_id |-> g.dst_func_id, dst_func_name |-> Null,
       unique_new_bb |-> SumOf(G, "unique_new_bb"),
       shared_new_bb |-> SumOf(G, "shared_new_bb"),
       total_new_bb |-> SumOf(G, "total_new_bb")] :
      g \in CallsiteJoinRows }

\* src_name, dst_name: the fetched name or None
NameOrNull(binary_id, func_id) ==
    IF FuncNameOf(binary_id, func_id) = {}
    THEN Null
    ELSE Some(CHOOSE n \in FuncNameOf(binary_id, func_id) : TRUE)

\* UPDATE callsite_unlock_scores SET src_func_name = ?, dst_func_name = ?
WithCallsiteNames(table) ==
    { [r EXCEPT !.src_func_name = NameOrNull(r.binary_id, r.src_func_id),
                !.dst_func_name = NameOrNull(r.binary_id, r.dst_func_id)] : r \in table }

FunctionKey == {"binary_id", "func_id"}
CallsiteKey == {"binary_id", "src_bb_rva", "dst_func_id"}

aggregate_scores ==
    /\ pc = "scores"
    /\ LET function_rows == function_unlock_scores \cup FunctionScoreRows
           callsite_rows == callsite_unlock_scores \cup CallsiteScoreRows
       IN IF InsertRaises(function_unlock_scores, FunctionScoreRows, FunctionKey)
          THEN /\ pc' = "exit_1"
               /\ UNCHANGED scores
          ELSE IF \/ "functions" \notin master_tables /\ function_rows \cup callsite_rows # {}
                  \/ InsertRaises(callsite_unlock_scores, CallsiteScoreRows, CallsiteKey)
          THEN /\ pc' = "exit_1"
               /\ function_unlock_scores' =
                     PersistedOnRaise(function_unlock_scores, WithFuncName(function_rows))
               /\ UNCHANGED callsite_unlock_scores
          ELSE /\ function_unlock_scores' = WithFuncName(function_rows)
               /\ callsite_unlock_scores' = WithCallsiteNames(callsite_rows)
               /\ pc' = "done"
    /\ UNCHANGED <<master, inputs, process, module_binary_map, rva_to_bb_cache, joined, bb_labels,
                   graph_B_nodes, graph_B_edges, frontier_edges, frontier_targets,
                   frontier_reachability, frontier_attribution, bb_attributed_to,
                   missing, unmapped, missing_report>>

(***************************************************************************)
(* expand_deterministic_for_sample, loop by loop                           *)
(***************************************************************************)

\* Variant: the walk without its visited set.
NotVisitedUnchecked(dst, visited_from_start) == TRUE

\* if dst not in visited_from_start
NotVisited(dst, visited_from_start) == dst \notin visited_from_start

\* the locals outside expand_deterministic_for_sample
NoWalk ==
    [sample |-> "", binaries |-> {}, binary_id |-> 0, covered_blocks |-> {}, starts |-> {},
     queue |-> <<>>, visited_from_start |-> {}, newly_discovered |-> {}, at |-> "idle"]

\* cursors and source_table; binaries = SELECT DISTINCT binary_id FROM cov_S_blocks_joined
expand_begin(S) ==
    /\ pc = "expand_" \o S
    /\ walk = NoWalk
    /\ walk' = [sample |-> S, binaries |-> { j.binary_id : j \in joined[S] },
                binary_id |-> 0, covered_blocks |-> {}, starts |-> {}, queue |-> <<>>,
                visited_from_start |-> {}, newly_discovered |-> {}, at |-> "binaries"]
    /\ UNCHANGED <<master, inputs, files, cov_tables, run, invocations, derived,
                   missing, unmapped, missing_report, pc>>

\* for (binary_id,) in binaries: covered_blocks, cfg and an empty newly_discovered
next_binary ==
    /\ walk.at = "binaries"
    /\ \E binary_id \in walk.binaries :
          walk' = [walk EXCEPT !.binaries = @ \ {binary_id},
                               !.binary_id = binary_id,
                               !.covered_blocks = CoveredBlocks(walk.sample, binary_id),
                               !.starts = CoveredBlocks(walk.sample, binary_id),
                               !.queue = <<>>,
                               !.visited_from_start = {},
                               !.newly_discovered = {},
                               !.at = "starts"]
    /\ UNCHANGED <<master, inputs, files, cov_tables, run, invocations, derived,
                   missing, unmapped, missing_report, pc>>

\* for start_bb in covered_blocks: queue = deque([start_bb]); visited_from_start = {start_bb}
next_start ==
    /\ walk.at = "starts"
    /\ walk.queue = <<>>
    /\ \E start_bb \in walk.starts :
          walk' = [walk EXCEPT !.starts = @ \ {start_bb},
                               !.queue = <<start_bb>>,
                               !.visited_from_start = {start_bb}]
    /\ UNCHANGED <<master, inputs, files, cov_tables, run, invocations, derived,
                   missing, unmapped, missing_report, pc>>

\* one iteration of `while queue`
walk_step ==
    /\ walk.at = "starts"
    /\ walk.queue # <<>>
    /\ LET current == Head(walk.queue)
           successors == Successors(walk.binary_id, current)
           e == CHOOSE x \in successors : TRUE
       IN IF /\ Cardinality(successors) = 1
             /\ e.edge_kind \in DeterministicKinds
             /\ NotVisited(e.dst_bb_rva, walk.visited_from_start)
          THEN IF e.dst_bb_rva \notin walk.covered_blocks
               THEN walk' = [walk EXCEPT
                               !.visited_from_start = @ \cup {e.dst_bb_rva},
                               !.newly_discovered = @ \cup {e.dst_bb_rva},
                               !.queue = Tail(@) \o <<e.dst_bb_rva>>]
               ELSE walk' = [walk EXCEPT
                               !.visited_from_start = @ \cup {e.dst_bb_rva},
                               !.queue = Tail(@)]
          ELSE walk' = [walk EXCEPT !.queue = Tail(@)]
    /\ UNCHANGED <<master, inputs, files, cov_tables, run, invocations, derived,
                   missing, unmapped, missing_report, pc>>

\* if newly_discovered: the func_id lookups and INSERT OR IGNORE of blocks_to_add
insert_discovered ==
    /\ walk.at = "starts"
    /\ walk.queue = <<>>
    /\ walk.starts = {}
    /\ joined' = [joined EXCEPT ![walk.sample] =
          InsertOrIgnoreBlocks(joined[walk.sample],
              UNION { { [binary_id |-> walk.binary_id, func_id |-> b.func_id,
                         bb_rva |-> bb_rva] : b \in ExactMatch(walk.binary_id, bb_rva) } :
                      bb_rva \in walk.newly_discovered })]
    /\ walk' = [walk EXCEPT !.at = "binaries"]
    /\ UNCHANGED <<master, inputs, files, cov_tables, run, invocations, scores, module_binary_map,
                   rva_to_bb_cache, bb_labels, graph_B_nodes, graph_B_edges, frontier_edges,
                   frontier_targets, frontier_reachability, frontier_attribution,
                   bb_attributed_to, missing, unmapped, missing_report, pc>>

\* cov_conn.commit() after the loop over the binaries; main() goes on
expand_commit ==
    /\ walk.at = "binaries"
    /\ walk.binaries = {}
    /\ walk' = NoWalk
    /\ pc' = StageAfterExpansion(walk.sample)
    /\ UNCHANGED <<master, inputs, files, cov_tables, run, invocations, derived,
                   missing, unmapped, missing_report>>

(***************************************************************************)
(* main                                                                    *)
(***************************************************************************)

\* A further invocation of the analyzer on the same two stores: a new process,
\* whose locals are fresh; the stores and the report file are as the last one left them.
rerun ==
    /\ pc = "done"
    /\ run < invocations
    /\ run' = run + 1
    /\ pc' = "start"
    /\ missing' = [S \in Samples |-> EmptyBag]
    /\ unmapped' = {}
    /\ UNCHANGED <<master, inputs, files, cov_tables, invocations, walk, derived,
                   missing_report>>

Next ==
    \/ check_inputs
    \/ create_analysis_tables
    \/ map_modules_to_binaries
    \/ \E S \in Samples : join_coverage_to_blocks(S)
    \/ \E S \in Samples : expand_deterministic_for_sample(S)
    \/ write_missing_report
    \/ compute_diff_labels
    \/ build_executed_graph
    \/ identify_frontier
    \/ compute_reachability
    \/ compute_attribution
    \/ aggregate_scores
    \/ rerun

\* One invocation, with the expansion taken loop iteration by loop iteration.
NextWalk ==
    \/ check_inputs
    \/ create_analysis_tables
    \/ map_modules_to_binaries
    \/ \E S \in Samples : join_coverage_to_blocks(S)
    \/ \E S \in Samples : expand_begin(S)
    \/ next_binary
    \/ next_start
    \/ walk_step
    \/ insert_discovered
    \/ expand_commit
    \/ write_missing_report
    \/ compute_diff_labels
    \/ build_executed_graph
    \/ identify_frontier
    \/ compute_reachability
    \/ compute_attribution
    \/ aggregate_scores

(***************************************************************************)
(* scripts/coverage_parser.py: parse_coverage_file                         *)
(*                                                                         *)
(* A line is a sequence of one-character strings.  An integer of the       *)
(* parser runs to 64 bits and beyond, past the integers of the model       *)
(* checker, and is held as its hexadecimal digits (0..15), most            *)
(* significant first, without leading zeros; zero is the empty sequence.   *)
(* The RVA columns of the rows the parser inserts hold such numbers.       *)
(***************************************************************************)

LowerHex == <<"0", "1", "2", "3", "4", "5", "6", "7", "8", "9", "a", "b", "c", "d", "e", "f">>
UpperHex == <<"A", "B", "C", "D", "E", "F">>

\* the character class [0-9a-fA-F]
HexChars == { LowerHex[i] : i \in 1..16 } \cup { UpperHex[i] : i \in 1..6 }

\* the value int(_, 16) gives a digit, whatever its case
HexValue(c) ==
    IF \E i \in 1..16 : LowerHex[i] = c
    THEN (CHOOSE i \in 1..16 : LowerHex[i] = c) - 1
    ELSE (CHOOSE i \in 1..6 : UpperHex[i] = c) + 9

\* a number has no leading zero digits
RECURSIVE Normalised(_)
Normalised(digits) ==
    IF digits # <<>> /\ Head(digits) = 0 THEN Normalised(Tail(digits)) ELSE digits

\* int(match.group(2), 16)
IntBase16(text) == Normalised([i \in 1..Len(text) |-> HexValue(text[i])])

\* Variant: a shift by 28 bits.
ShiftRight28(value) ==
    IF Len(value) <= 7 THEN <<>> ELSE SubSeq(value, 1, Len(value) - 7)

\* value >> 32
ShiftRight32(value) ==
    IF Len(value) <= 8 THEN <<>> ELSE SubSeq(value, 1, Len(value) - 8)

\* value & 0xFFFFFFFF
Mask32(value) ==
    IF Len(value) <= 8 THEN value ELSE Normalised(SubSeq(value, Len(value) - 7, Len(value)))

\* upper_32 = (value >> 32) & 0xFFFFFFFF
Upper32(value) == Mask32(ShiftRight32(value))

\* lower_32 = value & 0xFFFFFFFF
Lower32(value) == Mask32(value)

Whitespace == {" ", "\t"}

\* line.strip()
RECURSIVE StripLine(_)
StripLine(line) ==
    IF line = <<>> THEN line
    ELSE IF Head(line) \in Whitespace THEN StripLine(Tail(line))
    ELSE IF line[Len(line)] \in Whitespace THEN StripLine(SubSeq(line, 1, Len(line) - 1))
    ELSE line

\* the positions where group 1 of ^(.+?)\+([0-9a-fA-F]+)$ can end: a "+" follows
\* and the rest of the line is one or more hexadecimal digits
GroupOneEnds(line) ==
    { i \in 1..(Len(line) - 2) :
        /\ line[i + 1] = "+"
        /\ \A j \in (i + 2)..Len(line) : line[j] \in HexChars }

\* pattern.match(line): Null without a match; group 1 is lazy and takes the
\* shortest prefix that lets the rest match
PatternMatch(line) ==
    IF GroupOneEnds(line) = {}
    THEN Null
    ELSE LET i == CHOOSE k \in GroupOneEnds(line) : \A j \in GroupOneEnds(line) : k <= j
         IN Some([module_name |-> SubSeq(line, 1, i),
                  value |-> IntBase16(SubSeq(line, i + 2, Len(line)))])

\* module_name_to_id[module_name], as a set of at most one id
ModuleIdOf(module_name) ==
    { m.id : m \in { x \in module_name_to_id : x.name = module_name } }

\* the entries of the loop over the file that reach the split: the lines that are
\* not blank, match the pattern and name a known module
SplitEntries(S) ==
    UNION { LET line == StripLine(coverage_file[S][n]) IN
            IF line = <<>> \/ PatternMatch(line) = Null
            THEN {}
            ELSE { [module_id |-> module_id, value |-> PatternMatch(line)[1].value] :
                     module_id \in ModuleIdOf(PatternMatch(line)[1].module_name) } :
            n \in 1..Len(coverage_file[S]) }

\* blocks_data: the entries with upper_32 == 0
BlocksData(S) ==
    { [module_id |-> e.module_id, bb_rva |-> Lower32(e.value)] :
        e \in { x \in SplitEntries(S) : Upper32(x.value) = <<>> } }

\* edges_data: the entries with upper_32 != 0
EdgesData(S) ==
    { [module_id |-> e.module_id, src_bb_rva |-> Upper32(e.value),
       dst_bb_rva |-> Lower32(e.value)] :
        e \in { x \in SplitEntries(S) : Upper32(x.value) # <<>> } }

\* main() of the parser parses the file of A, then the file of B
StageAfterParse(S) == IF S = "A" THEN "parse_B" ELSE "parsed"

\* CREATE TABLE IF NOT EXISTS for the two tables of the sample, the loop over the
\* file, the two INSERT OR IGNORE (the primary key is the whole row), commit
parse_coverage_file(S) ==
    /\ pc = "parse_" \o S
    /\ cov_tables' = cov_tables \cup {"cov_" \o S \o "_blocks", "cov_" \o S \o "_edges"}
    /\ cov_blocks' = [cov_blocks EXCEPT ![S] = @ \cup BlocksData(S)]
    /\ cov_edges' = [cov_edges EXCEPT ![S] = @ \cup EdgesData(S)]
    /\ pc' = StageAfterParse(S)
    /\ UNCHANGED <<master, modules, coverage_file, module_name_to_id, files, run, invocations,
                   walk, derived, missing, unmapped, missing_report>>

\* The parser CLI: one invocation.
NextParser == \E S \in Samples : parse_coverage_file(S)

(***************************************************************************)
(* Initial states: the two stores before the first invocation (the         *)
(* coverage store holds its input tables only) and the inputs of the run.  *)
(***************************************************************************)

\* Bounds on the number of rows an input draws.
MaxEdges == 3      \* graph family: rows of cov_B_edges, cfg_edges and call_edges_static together
MaxCov == 2        \* expansion family: rows of cov_A_blocks
MaxRaw == 2        \* join and module families: raw coverage rows over all four coverage tables
MaxCfg == 2        \* expansion family: rows of cfg_edges
MaxMissing == 1    \* configuration family: store files and tables that are absent

RECURSIVE SubsetsUpTo(_, _)
SubsetsUpTo(U, k) ==
    IF k = 0 THEN {{}}
    ELSE LET smaller == SubsetsUpTo(U, k - 1)
         IN smaller \cup { s \cup {x} : s \in smaller, x \in U }

\* Binary 1: blocks [2,4) and [4,6) of function 100, block [7,8) of function 200.
\* Binary 2: block [2,3) of function 300.
StandardBlocks ==
    { [binary_id |-> 1, func_id |-> 100, bb_rva |-> 2, bb_size |-> 2],
      [binary_id |-> 1, func_id |-> 100, bb_rva |-> 4, bb_size |-> 2],
      [binary_id |-> 1, func_id |-> 200, bb_rva |-> 7, bb_size |-> 1],
      [binary_id |-> 2, func_id |-> 300, bb_rva |-> 2, bb_size |-> 1] }

\* Module 10 is binary 1, module 20 is binary 2; module 30 has no analyzed binary.
StandardModules ==
    { [id |-> 10, sha256_hash |-> "h1"],
      [id |-> 20, sha256_hash |-> "h2"] }

\* The coverage store before the first invocation and the locals of a new process.
\* The parser has finished: its text files play no part in the analyzer's run.
ParserIdle ==
    /\ coverage_file = [S \in Samples |-> <<>>]
    /\ module_name_to_id = {}

FreshStore ==
    /\ module_binary_map = {}
    /\ rva_to_bb_cache = {}
    /\ joined = [S \in Samples |-> {}]
    /\ bb_labels = {}
    /\ graph_B_nodes = {}
    /\ graph_B_edges = {}
    /\ frontier_edges = {}
    /\ frontier_targets = {}
    /\ frontier_reachability = {}
    /\ frontier_attribution = {}
    /\ bb_attributed_to = {}
    /\ function_unlock_scores = {}
    /\ callsite_unlock_scores = {}
    /\ missing = [S \in Samples |-> EmptyBag]
    /\ unmapped = {}
    /\ missing_report = Null
    /\ pc = "start"
    /\ run = 1
    /\ walk = NoWalk
    /\ ParserIdle

\* Both store files exist and hold every table the analyzer reads.
CompleteStores ==
    /\ files = StoreFiles
    /\ master_tables = MasterTables
    /\ cov_tables = InputTables

\* Row constructors of the input tables.
BlockRow(m, rva) == [module_id |-> m, bb_rva |-> rva]
EdgeRow(m, src, dst) == [module_id |-> m, src_bb_rva |-> src, dst_bb_rva |-> dst]
CfgRow(b, src, dst, kind) ==
    [binary_id |-> b, src_bb_rva |-> src, dst_bb_rva |-> dst, edge_kind |-> kind]
CallRow(b, src, f) == [binary_id |-> b, src_bb_rva |-> src, dst_func_id |-> f]

\* A drawn row names its table; `row` is the row itself.
Drawn(table, rows) == { <<table, r>> : r \in rows }
RowsOf(E, table) == { e[2] : e \in { y \in E : y[1] = table } }

\* Coverage recorded at block starts.
StartRows == { BlockRow(10, 2), BlockRow(10, 4), BlockRow(10, 7), BlockRow(20, 2) }

\* Graph family: G_B shapes over the three blocks of binary 1 and the block of
\* binary 2, built from observed transitions, static CFG edges and static calls.
GraphEdgeUniverse ==
    Drawn("cov_B_edges", { e \in { EdgeRow(10, s, d) : s \in {2, 4, 7}, d \in {2, 4, 7} } :
                             e.src_bb_rva # e.dst_bb_rva })
      \cup Drawn("cov_B_edges", { EdgeRow(10, 7, 7), EdgeRow(20, 2, 2) })
      \cup Drawn("cfg_edges", { CfgRow(1, 2, 4, "fallthrough"),
                                CfgRow(1, 4, 2, "branch_unconditional"),
                                CfgRow(1, 4, 7, "branch_conditional") })
      \cup Drawn("call_edges_static", { CallRow(1, 2, 200), CallRow(1, 7, 100) })

InitGraph ==
    /\ basic_blocks = StandardBlocks
    /\ modules = StandardModules
    /\ \E E \in SubsetsUpTo(GraphEdgeUniverse, MaxEdges),
          A \in SUBSET { r \in StartRows : r.module_id = 10 },
          B \in { {}, {BlockRow(10, 7)}, {BlockRow(20, 2)} } :
          /\ cfg_edges = RowsOf(E, "cfg_edges")
          /\ call_edges_static = RowsOf(E, "call_edges_static")
          /\ cov_blocks = [S \in Samples |-> IF S = "A" THEN A ELSE B]
          /\ cov_edges = [S \in Samples |-> IF S = "A" THEN {} ELSE RowsOf(E, "cov_B_edges")]
    /\ CompleteStores
    /\ invocations = 1
    /\ FreshStore

\* Join family: raw RVAs (block starts, mid-block and one-past-end addresses,
\* addresses outside every block), a module without analyzed binary, and
\* master stores that lack some of the blocks of binary 1.  The analyzer is
\* invoked twice.
RawUniverse ==
    Drawn("cov_A_blocks", { BlockRow(10, 2), BlockRow(10, 3), BlockRow(10, 4), BlockRow(10, 6),
                            BlockRow(10, 9), BlockRow(20, 2), BlockRow(30, 2) })
      \cup Drawn("cov_B_blocks", { BlockRow(10, 1), BlockRow(10, 2), BlockRow(10, 3),
                                   BlockRow(10, 4), BlockRow(10, 6), BlockRow(10, 9),
                                   BlockRow(20, 2), BlockRow(30, 2) })
      \cup Drawn("cov_A_edges", { EdgeRow(10, 3, 7), EdgeRow(30, 2, 2) })
      \cup Drawn("cov_B_edges", { EdgeRow(10, 3, 4), EdgeRow(10, 4, 6), EdgeRow(10, 5, 7),
                                  EdgeRow(10, 7, 9), EdgeRow(30, 2, 2) })

InitJoin ==
    /\ \E L \in SUBSET { b \in StandardBlocks : b.binary_id = 1 } :
          basic_blocks = L \cup { b \in StandardBlocks : b.binary_id = 2 }
    /\ modules = StandardModules \cup { [id |-> 30, sha256_hash |-> "hx"] }
    /\ cfg_edges = {}
    /\ call_edges_static = {}
    /\ \E R \in SubsetsUpTo(RawUniverse, MaxRaw) :
          /\ cov_blocks = [S \in Samples |-> RowsOf(R, "cov_" \o S \o "_blocks")]
          /\ cov_edges = [S \in Samples |-> RowsOf(R, "cov_" \o S \o "_edges")]
    /\ CompleteStores
    /\ invocations = 2
    /\ FreshStore

\* Expansion family: static CFGs with chains, cycles, self-loops, branches and an
\* edge to an address (9) that basic_blocks has no row for.
CfgUniverse ==
    { CfgRow(1, 2, 4, "fallthrough"), CfgRow(1, 4, 7, "branch_unconditional"),
      CfgRow(1, 7, 2, "fallthrough"), CfgRow(1, 4, 9, "fallthrough"),
      CfgRow(1, 9, 7, "fallthrough"), CfgRow(1, 2, 7, "branch_conditional"),
      CfgRow(1, 2, 4, "branch_conditional"), CfgRow(1, 4, 4, "branch_unconditional"),
      CfgRow(1, 4, 2, "branch_unconditional"), CfgRow(2, 2, 2, "fallthrough") }

\* what the expansion family and the loop-by-loop family share
ExpandInputs(BChoices) ==
    /\ basic_blocks = StandardBlocks
    /\ modules = StandardModules
    /\ cfg_edges \in SubsetsUpTo(CfgUniverse, MaxCfg)
    /\ call_edges_static = {}
    /\ \E A \in SubsetsUpTo(StartRows, MaxCov), B \in BChoices :
          cov_blocks = [S \in Samples |-> IF S = "A" THEN A ELSE B]
    /\ cov_edges = [S \in Samples |-> {}]
    /\ CompleteStores
    /\ FreshStore

InitExpand ==
    /\ ExpandInputs(SUBSET { BlockRow(10, 2), BlockRow(10, 7) })
    /\ invocations = 2

\* Module family: module tables in which two modules carry the hash of the same
\* binary, in which some modules have no analyzed binary, and in which none has.
\* A coverage table holds rows of the modules of the modules table only.
ModuleUniverse ==
    { [id |-> 10, sha256_hash |-> "h1"], [id |-> 11, sha256_hash |-> "h1"],
      [id |-> 20, sha256_hash |-> "h2"], [id |-> 30, sha256_hash |-> "hx"] }

ModuleRawUniverse ==
    Drawn("cov_A_blocks", { BlockRow(10, 2), BlockRow(11, 4), BlockRow(30, 2) })
      \cup Drawn("cov_B_blocks", { BlockRow(11, 2), BlockRow(20, 2), BlockRow(30, 4) })
      \cup Drawn("cov_A_edges", { EdgeRow(30, 4, 7) })
      \cup Drawn("cov_B_edges", { EdgeRow(11, 2, 4), EdgeRow(30, 2, 4), EdgeRow(30, 2, 2) })

OfModules(rows, M) == { r \in rows : \E m \in M : m.id = r.module_id }

InitModules ==
    /\ basic_blocks = StandardBlocks
    /\ cfg_edges = {}
    /\ call_edges_static = {}
    /\ \E M \in SUBSET ModuleUniverse, R \in SubsetsUpTo(ModuleRawUniverse, MaxRaw) :
          /\ modules = M
          /\ cov_blocks = [S \in Samples |-> OfModules(RowsOf(R, "cov_" \o S \o "_blocks"), M)]
          /\ cov_edges = [S \in Samples |-> OfModules(RowsOf(R, "cov_" \o S \o "_edges"), M)]
    /\ CompleteStores
    /\ invocations = 1
    /\ FreshStore

\* Configuration family: one run's inputs, with store files or tables absent.
\* An absent table has no rows; an absent file has no tables.
ConfigBlocksA == { BlockRow(10, 2) }
ConfigBlocksB == { BlockRow(10, 7) }
ConfigEdgesB == { EdgeRow(10, 4, 7) }
ConfigCfg == { CfgRow(1, 2, 4, "fallthrough") }
ConfigCalls == { CallRow(1, 2, 200) }

IfPresent(table, tables, rows) == IF table \in tables THEN rows ELSE {}

InitConfig ==
    /\ \E Absent \in SubsetsUpTo(StoreFiles \cup MasterTables \cup InputTables, MaxMissing) :
          /\ files = StoreFiles \ Absent
          /\ master_tables = IF "master_db" \in Absent THEN {} ELSE MasterTables \ Absent
          /\ cov_tables = IF "cov_db" \in Absent THEN {} ELSE InputTables \ Absent
    /\ basic_blocks = IfPresent("basic_blocks", master_tables, StandardBlocks)
    /\ cfg_edges = IfPresent("cfg_edges", master_tables, ConfigCfg)
    /\ call_edges_static = IfPresent("call_edges_static", master_tables, ConfigCalls)
    /\ modules = IfPresent("modules", cov_tables, StandardModules)
    /\ cov_blocks = [S \in Samples |->
          IF S = "A" THEN IfPresent("cov_A_blocks", cov_tables, ConfigBlocksA)
                     ELSE IfPresent("cov_B_blocks", cov_tables, ConfigBlocksB)]
    /\ cov_edges = [S \in Samples |->
          IF S = "A" THEN {} ELSE IfPresent("cov_B_edges", cov_tables, ConfigEdgesB)]
    /\ invocations = 2
    /\ FreshStore

\* Scenario family: the expansion example of the specification.  Blocks 10, 20,
\* 30, 40 and 50 of function 100; 10 -> 20 fallthrough, 20 -> 30 unconditional,
\* 30 -> 40 and 30 -> 50 conditional; sample A recorded 10 and 40.
ScenarioBlocks ==
    { [binary_id |-> 1, func_id |-> 100, bb_rva |-> rva, bb_size |-> 5] :
        rva \in {10, 20, 30, 40, 50} }

ScenarioCfg ==
    { CfgRow(1, 10, 20, "fallthrough"), CfgRow(1, 20, 30, "branch_unconditional"),
      CfgRow(1, 30, 40, "branch_conditional"), CfgRow(1, 30, 50, "branch_conditional") }

InitScenario ==
    /\ basic_blocks = ScenarioBlocks
    /\ modules = StandardModules
    /\ cfg_edges = ScenarioCfg
    /\ call_edges_static = {}
    /\ cov_blocks = [S \in Samples |->
          IF S = "A" THEN { BlockRow(10, 10), BlockRow(10, 40) }
                     ELSE { BlockRow(10, 10), BlockRow(10, 40), BlockRow(10, 50) }]
    /\ cov_edges = [S \in Samples |-> {}]
    /\ CompleteStores
    /\ invocations = 1
    /\ FreshStore

\* Branch family: block 100 branches conditionally to 200 and 300.  In the simple
\* form 200 and 300 both fall through to 400; in the shared form they both fall
\* through to the added block 500 instead.  A records {100, 200, 400}, B records
\* every block; the conditional transitions the tracer observed vary.
BranchBlocks(rvas) ==
    { [binary_id |-> 1, func_id |-> 100, bb_rva |-> rva, bb_size |-> 5] : rva \in rvas }

UnlockCfg ==
    { CfgRow(1, 100, 200, "branch_conditional"), CfgRow(1, 100, 300, "branch_conditional"),
      CfgRow(1, 200, 400, "fallthrough"), CfgRow(1, 300, 400, "fallthrough") }

SharedCfg ==
    { CfgRow(1, 100, 200, "branch_conditional"), CfgRow(1, 100, 300, "branch_conditional"),
      CfgRow(1, 200, 500, "fallthrough"), CfgRow(1, 300, 500, "fallthrough") }

BranchTransitions == { EdgeRow(10, 100, 200), EdgeRow(10, 100, 300) }

InitBranch ==
    /\ \E rvas \in { {100, 200, 300, 400}, {100, 200, 300, 400, 500} } :
          /\ basic_blocks = BranchBlocks(rvas)
          /\ cfg_edges = IF 500 \in rvas THEN SharedCfg ELSE UnlockCfg
          /\ \E EA \in SUBSET {EdgeRow(10, 100, 200)}, EB \in SUBSET BranchTransitions :
                /\ cov_blocks = [S \in Samples |->
                      IF S = "A" THEN { BlockRow(10, rva) : rva \in {100, 200, 400} }
                                 ELSE { BlockRow(10, rva) : rva \in rvas }]
                /\ cov_edges = [S \in Samples |-> IF S = "A" THEN EA ELSE EB]
    /\ modules = StandardModules
    /\ call_edges_static = {}
    /\ CompleteStores
    /\ invocations = 1
    /\ FreshStore

\* Return-address family: block 0x1000 of size 0x20 and block 0x2000 of size 0x10;
\* sample B records transitions whose source is the start of a block, a return
\* address inside block 0x1000 (0x101c), or an address outside every block.
ReturnBlocks ==
    { [binary_id |-> 1, func_id |-> 100, bb_rva |-> 4096, bb_size |-> 32],
      [binary_id |-> 1, func_id |-> 200, bb_rva |-> 8192, bb_size |-> 16] }

ReturnTransitions ==
    { EdgeRow(10, 4124, 8192), EdgeRow(10, 4096, 8192), EdgeRow(10, 8192, 4124),
      EdgeRow(10, 4124, 12288) }

InitReturn ==
    /\ basic_blocks = ReturnBlocks
    /\ modules = StandardModules
    /\ cfg_edges = {}
    /\ call_edges_static = {}
    /\ \E A \in SUBSET {BlockRow(10, 4096)}, EB \in SUBSET ReturnTransitions :
          /\ cov_blocks = [S \in Samples |-> IF S = "A" THEN A ELSE {}]
          /\ cov_edges = [S \in Samples |-> IF S = "A" THEN {} ELSE EB]
    /\ CompleteStores
    /\ invocations = 1
    /\ FreshStore

Init ==
    InitGraph \/ InitJoin \/ InitExpand \/ InitModules \/ InitConfig \/ InitScenario
      \/ InitBranch \/ InitReturn

Spec == Init /\ [][Next]_vars

\* The loop-by-loop family: the expansion family's CFGs and sample A, one invocation.
InitWalk ==
    /\ ExpandInputs({ {} })
    /\ invocations = 1

\* Every loop iteration of the expansion is eventually taken: the process runs.
SpecWalk == InitWalk /\ [][NextWalk]_vars /\ WF_vars(NextWalk)

\* Parser family: the coverage store as create_modules_table left it (the modules
\* table and the dict of names), and the two text files.
MaxLines == 2

KnownName == <<"m">>
PlusName == <<"l", "+", "1">>
UnknownName == <<"u">>

HexTexts ==
    { <<"0">>, <<"1", "c">>, <<"1", "C">>, <<"0", "0", "0", "0", "0", "0", "1", "c">>,
      <<"f", "f", "f", "f", "f", "f", "f", "f">>,
      <<"1", "0", "0", "0", "0", "0", "0", "0", "0">>,
      <<"1", "0", "0", "0", "0", "0", "0", "1", "c">>,
      <<"0", "0", "1", "0", "0", "0", "0", "0", "0", "1", "c">>,
      <<"F", "f", "f", "f", "f", "f", "f", "f", "f", "f", "f", "f", "f", "f", "f", "f">>,
      <<"1", "0", "0", "0", "0", "0", "0", "0", "0", "0", "0", "0", "0", "0", "0", "1", "c">> }

\* lines of the known module, one line each of a module whose name holds a "+", of
\* an unknown module and of a line with surrounding blanks, and lines that do not
\* match: no digits, no "+", a character that is no digit, a blank line
LineUniverse ==
    { KnownName \o <<"+">> \o t : t \in HexTexts }
      \cup { PlusName \o <<"+", "1", "c">>,
             UnknownName \o <<"+", "1", "c">>,
             UnknownName \o <<"+", "1", "0", "0", "0", "0", "0", "0", "1", "c">>,
             <<" ">> \o KnownName \o <<"+", "2", "a">> \o <<" ">>,
             KnownName \o <<"+">>,
             KnownName \o <<"1", "c">>,
             KnownName \o <<"+", "0", "x", "1", "c">>,
             <<" ">> }

\* the file of sample B: absent lines, a block hit, an edge or an unknown module
SecondFileLines ==
    { KnownName \o <<"+", "1", "c">>,
      KnownName \o <<"+", "1", "0", "0", "0", "0", "0", "0", "1", "c">>,
      UnknownName \o <<"+", "1", "c">> }

RECURSIVE SeqsUpTo(_, _)
SeqsUpTo(U, n) ==
    IF n = 0 THEN { <<>> }
    ELSE SeqsUpTo(U, n - 1)
           \cup { Append(q, x) : q \in { y \in SeqsUpTo(U, n - 1) : Len(y) = n - 1 }, x \in U }

NameDicts ==
    { { [name |-> KnownName, id |-> 10] },
      { [name |-> KnownName, id |-> 10], [name |-> PlusName, id |-> 20] } }

InitParser ==
    /\ \E fa \in SeqsUpTo(LineUniverse, MaxLines),
          fb \in SeqsUpTo(SecondFileLines, 1),
          d \in NameDicts :
          /\ coverage_file = [S \in Samples |-> IF S = "A" THEN fa ELSE fb]
          /\ module_name_to_id = d
          /\ modules = { [id |-> m.id, sha256_hash |-> "h1"] : m \in d }
    /\ cov_blocks = [S \in Samples |-> {}]
    /\ cov_edges = [S \in Samples |-> {}]
    /\ basic_blocks = {} /\ cfg_edges = {} /\ call_edges_static = {}
    /\ master_tables = {}
    /\ files = {"cov_db"}
    /\ cov_tables = {"modules"}
    /\ module_binary_map = {}
    /\ rva_to_bb_cache = {}
    /\ joined = [S \in Samples |-> {}]
    /\ bb_labels = {}
    /\ graph_B_nodes = {}
    /\ graph_B_edges = {}
    /\ frontier_edges = {}
    /\ frontier_targets = {}
    /\ frontier_reachability = {}
    /\ frontier_attribution = {}
    /\ bb_attributed_to = {}
    /\ function_unlock_scores = {}
    /\ callsite_unlock_scores = {}
    /\ missing = [S \in Samples |-> EmptyBag]
    /\ unmapped = {}
    /\ missing_report = Null
    /\ pc = "parse_A"
    /\ run = 1
    /\ invocations = 1
    /\ walk = NoWalk

SpecParser == InitParser /\ [][NextParser]_vars

(***************************************************************************)
(* Properties.  Each is stated over the tables, at the stage the claim     *)
(* names.                                                                  *)
(***************************************************************************)

AfterLabels == pc \in {"graph", "frontier", "reachability", "attribution", "scores", "done"}
AfterGraph == pc \in {"frontier", "reachability", "attribution", "scores", "done"}
AfterFrontier == pc \in {"reachability", "attribution", "scores", "done"}
AfterReachability == pc \in {"attribution", "scores", "done"}
AfterExpansion == pc \in {"report", "labels"} \/ AfterLabels

NewRows == { l \in bb_labels : l.is_new = 1 }

\* F(n): the frontier targets with a frontier_reachability row to n
F(binary_id, n) ==
    { t.bb_rva : t \in { x \in frontier_targets :
        /\ x.binary_id = binary_id
        /\ \E r \in frontier_reachability : /\ r.binary_id = binary_id
                                             /\ r.frontier_bb_rva = x.bb_rva
                                             /\ r.new_bb_rva = n } }

AttributionRows(binary_id, n) ==
    { a \in bb_attributed_to : a.binary_id = binary_id /\ a.new_bb_rva = n }

\* C1: after compute_attribution, a new block n with |F(n)| = 1 has exactly one
\* bb_attributed_to row, unshared and naming that frontier; with |F(n)| >= 2 exactly
\* one row, shared and with a null frontier; with |F(n)| = 0 no row.
C1_AttributionByFrontierCount ==
    pc = "done" =>
      \A l \in NewRows :
        LET Fn == F(l.binary_id, l.bb_rva)
            rows == AttributionRows(l.binary_id, l.bb_rva)
        IN /\ Cardinality(Fn) = 1 =>
                rows = { [binary_id |-> l.binary_id, new_bb_rva |-> l.bb_rva,
                          frontier_bb_rva |-> Some(f), is_shared |-> 0] : f \in Fn }
           /\ Cardinality(Fn) >= 2 =>
                rows = { [binary_id |-> l.binary_id, new_bb_rva |-> l.bb_rva,
                          frontier_bb_rva |-> Null, is_shared |-> 1] }
           /\ Cardinality(Fn) = 0 => rows = {}

\* A run that ends with a uniquely attributed block, a shared block and a new
\* block that no frontier target reaches.
C1_Witness ==
    /\ pc = "done"
    /\ \E l \in NewRows : /\ Cardinality(F(l.binary_id, l.bb_rva)) = 1
                          /\ AttributionRows(l.binary_id, l.bb_rva) # {}
    /\ \E l \in NewRows : /\ Cardinality(F(l.binary_id, l.bb_rva)) >= 2
                          /\ AttributionRows(l.binary_id, l.bb_rva) # {}
    /\ \E l \in NewRows : Cardinality(F(l.binary_id, l.bb_rva)) = 0

JoinedKeys(S) == { <<j.binary_id, j.bb_rva>> : j \in joined[S] }

\* C2: after compute_diff_labels, bb_labels has exactly one row for every block of
\* cov_A_blocks_joined or cov_B_blocks_joined and no other row; in_A and in_B tell
\* membership in the two joined sets and is_new = 1 iff in_A = 0 and in_B = 1.
C2_LabelsOfJoinedBlocks ==
    AfterLabels =>
      /\ \A k \in JoinedKeys("A") \cup JoinedKeys("B") :
            Cardinality({ l \in bb_labels : l.binary_id = k[1] /\ l.bb_rva = k[2] }) = 1
      /\ \A l \in bb_labels :
            /\ <<l.binary_id, l.bb_rva>> \in JoinedKeys("A") \cup JoinedKeys("B")
            /\ l.in_A \in {0, 1} /\ l.in_B \in {0, 1} /\ l.is_new \in {0, 1}
            /\ l.in_A = 1 <=> <<l.binary_id, l.bb_rva>> \in JoinedKeys("A")
            /\ l.in_B = 1 <=> <<l.binary_id, l.bb_rva>> \in JoinedKeys("B")
            /\ l.is_new = 1 <=> (l.in_A = 0 /\ l.in_B = 1)

\* Labels of a block in both samples, of a block only in A and of a new block.
C2_Witness ==
    /\ pc = "graph"
    /\ \E l \in bb_labels : l.in_A = 1 /\ l.in_B = 1 /\ l.is_new = 0
    /\ \E l \in bb_labels : l.in_A = 1 /\ l.in_B = 0 /\ l.is_new = 0
    /\ \E l \in bb_labels : l.in_A = 0 /\ l.in_B = 1 /\ l.is_new = 1

\* the incoming G_B edges of a block
Incoming(binary_id, bb_rva) ==
    { e \in graph_B_edges : e.binary_id = binary_id /\ e.dst_bb_rva = bb_rva }

NonSuperRootTypes ==
    {"cfg_fallthrough", "cfg_branch_unconditional", "call_direct",
     "observed_conditional", "observed_return_continuation"}

\* in_A and is_new of the source of an edge: the bb_labels row of the source, and
\* for the super-root its graph_B_nodes row (in_A = 1, is_new = 0)
SourceInA(e) ==
    \/ \E l \in bb_labels : l.binary_id = e.binary_id /\ l.bb_rva = e.src_bb_rva /\ l.in_A = 1
    \/ e.src_bb_rva = SuperRoot
SourceIsNew(e) ==
    \E l \in bb_labels : l.binary_id = e.binary_id /\ l.bb_rva = e.src_bb_rva /\ l.is_new = 1

\* C3: after identify_frontier, every frontier target is new and has an incoming
\* edge of a non-super-root type from a source with in_A = 1, or an incoming
\* super_root_orphan edge.
C3_FrontierTargetsAreEntered ==
    AfterFrontier =>
      \A t \in frontier_targets :
        /\ \E l \in NewRows : l.binary_id = t.binary_id /\ l.bb_rva = t.bb_rva
        /\ \/ \E e \in Incoming(t.binary_id, t.bb_rva) :
                 e.edge_type \in NonSuperRootTypes /\ SourceInA(e)
           \/ \E e \in Incoming(t.binary_id, t.bb_rva) : e.edge_type = "super_root_orphan"

\* A frontier target entered from an A-covered block beside one entered as an
\* orphan, and a new block that is no frontier target.
C3_Witness ==
    /\ pc = "reachability"
    /\ \E t \in frontier_targets :
          \E e \in Incoming(t.binary_id, t.bb_rva) :
             e.edge_type \in NonSuperRootTypes /\ SourceInA(e)
    /\ \E t \in frontier_targets :
          \E e \in Incoming(t.binary_id, t.bb_rva) : e.edge_type = "super_root_orphan"
    /\ \E l \in NewRows :
          \A t \in frontier_targets : ~(t.binary_id = l.binary_id /\ t.bb_rva = l.bb_rva)

\* the right-hand side of the classification rule as the claim words it
AllSourcesInANoneNew(t) ==
    /\ \A e \in Incoming(t.binary_id, t.bb_rva) :
          e.edge_type \in NonSuperRootTypes => SourceInA(e)
    /\ \A e \in Incoming(t.binary_id, t.bb_rva) : ~SourceIsNew(e)

OrphanEntered(t) ==
    \E e \in Incoming(t.binary_id, t.bb_rva) : e.edge_type = "super_root_orphan"

\* C4 as claimed: a frontier target is strong iff every incoming non-super-root edge
\* has a source with in_A = 1 and no incoming edge has a new source.
C4_StrongIffAllSourcesInA ==
    AfterFrontier =>
      \A t \in frontier_targets :
        /\ t.frontier_type \in {"strong", "weak"}
        /\ t.frontier_type = "strong" <=> AllSourcesInANoneNew(t)

\* C4 amended: a frontier target is strong iff it has no incoming super_root_orphan
\* edge, every incoming non-super-root edge has a source with in_A = 1 and no
\* incoming edge has a new source; it is weak otherwise.
C4_StrongIffNotOrphanAllSourcesInA ==
    AfterFrontier =>
      \A t \in frontier_targets :
        /\ t.frontier_type \in {"strong", "weak"}
        /\ t.frontier_type = "strong" <=> (~OrphanEntered(t) /\ AllSourcesInANoneNew(t))

\* A strong target, a weak target entered from both an A-covered and a new block,
\* and an orphan-entered target in one run.
C4_Witness ==
    /\ pc = "reachability"
    /\ \E t \in frontier_targets : t.frontier_type = "strong"
    /\ \E t \in frontier_targets :
          /\ t.frontier_type = "weak"
          /\ \E e \in Incoming(t.binary_id, t.bb_rva) : SourceIsNew(e)
          /\ \E e \in Incoming(t.binary_id, t.bb_rva) :
                e.edge_type \in NonSuperRootTypes /\ SourceInA(e)
    /\ \E t \in frontier_targets : OrphanEntered(t) /\ t.frontier_type = "weak"

\* C5: G_B has a super_root_orphan edge -1 -> n exactly for the new blocks n without
\* incoming edge of types cfg_*, call_direct, observed_conditional and
\* observed_return_continuation; every such n is a frontier target, classified weak.
C5_OrphanEdges ==
    /\ AfterGraph =>
         /\ \A l \in bb_labels :
               ([binary_id |-> l.binary_id, src_bb_rva |-> SuperRoot, dst_bb_rva |-> l.bb_rva,
                 edge_type |-> "super_root_orphan"] \in graph_B_edges)
                 <=> /\ l.is_new = 1
                     /\ \A e \in Incoming(l.binary_id, l.bb_rva) :
                           e.edge_type \notin NonSuperRootTypes
         /\ \A e \in graph_B_edges :
               e.edge_type = "super_root_orphan" =>
                 /\ e.src_bb_rva = SuperRoot
                 /\ \E l \in bb_labels : l.binary_id = e.binary_id /\ l.bb_rva = e.dst_bb_rva
    /\ AfterFrontier =>
         \A e \in graph_B_edges :
           e.edge_type = "super_root_orphan" =>
             /\ \E t \in frontier_targets :
                   t.binary_id = e.binary_id /\ t.bb_rva = e.dst_bb_rva
             /\ \A t \in frontier_targets :
                   (t.binary_id = e.binary_id /\ t.bb_rva = e.dst_bb_rva)
                     => t.frontier_type = "weak"

\* An orphan-entered block classified weak, beside new blocks that a CFG edge, a
\* direct call or an observed transition enters and that get no orphan edge.
C5_Witness ==
    /\ pc = "reachability"
    /\ \E t \in frontier_targets : OrphanEntered(t) /\ t.frontier_type = "weak"
    /\ \E l \in NewRows :
          /\ \E e \in Incoming(l.binary_id, l.bb_rva) :
                e.edge_type \in {"cfg_fallthrough", "cfg_branch_unconditional", "call_direct"}
          /\ \A e \in Incoming(l.binary_id, l.bb_rva) : e.edge_type # "super_root_orphan"
    /\ \E l \in NewRows :
          /\ \E e \in Incoming(l.binary_id, l.bb_rva) :
                e.edge_type \in {"observed_conditional", "observed_return_continuation"}
          /\ \A e \in Incoming(l.binary_id, l.bb_rva) : e.edge_type # "super_root_orphan"

\* the frontier_reachability rows of a frontier: the new blocks it reaches
ReachedFrom(binary_id, frontier) ==
    { x.new_bb_rva : x \in { r \in frontier_reachability :
                                r.binary_id = binary_id /\ r.frontier_bb_rva = frontier } }

\* C6: in every frontier_attribution row of a frontier f, unique_new_bb_count counts
\* the blocks f reaches that are attributed to f alone, shared_new_bb_count those it
\* reaches that are shared, no block is in both, and their sum is
\* attributed_new_bb_count, the number of frontier_reachability rows of f.
C6_AttributionCounts ==
    pc = "done" =>
      \A r \in frontier_attribution :
        LET reached == ReachedFrom(r.binary_id, r.frontier_bb_rva)
            uniq == { n \in reached : \E a \in AttributionRows(r.binary_id, n) :
                        a.is_shared = 0 /\ a.frontier_bb_rva = Some(r.frontier_bb_rva) }
            shar == { n \in reached : \E a \in AttributionRows(r.binary_id, n) :
                        a.is_shared = 1 }
        IN /\ r.unique_new_bb_count = Cardinality(uniq)
           /\ r.shared_new_bb_count = Cardinality(shar)
           /\ uniq \cap shar = {}
           /\ r.unique_new_bb_count + r.shared_new_bb_count = r.attributed_new_bb_count
           /\ r.attributed_new_bb_count = Cardinality(reached)

\* A frontier with a block of its own and a block it shares with another frontier.
C6_Witness ==
    /\ pc = "done"
    /\ \E r \in frontier_attribution :
          r.unique_new_bb_count >= 1 /\ r.shared_new_bb_count >= 1

\* The blocks on a directed path of graph_B_edges rows (any edge type) from a block
\* of `from`, those of `from` included: the least set closed under the edges.
RECURSIVE PathClosure(_, _)
PathClosure(binary_id, from) ==
    LET step == from \cup { e.dst_bb_rva : e \in { x \in graph_B_edges :
                               x.binary_id = binary_id /\ x.src_bb_rva \in from } }
    IN IF step = from THEN from ELSE PathClosure(binary_id, step)

\* The same along paths whose blocks before the last are all new.
RECURSIVE PathClosureThroughNew(_, _)
PathClosureThroughNew(binary_id, from) ==
    LET step == from \cup { e.dst_bb_rva : e \in { x \in graph_B_edges :
                               /\ x.binary_id = binary_id
                               /\ x.src_bb_rva \in from
                               /\ \E l \in NewRows : l.binary_id = binary_id
                                                      /\ l.bb_rva = x.src_bb_rva } }
    IN IF step = from THEN from ELSE PathClosureThroughNew(binary_id, step)

\* the frontier targets that reach block n in G_B
Reachers(binary_id, n) ==
    { t \in frontier_targets :
        t.binary_id = binary_id /\ n \in PathClosure(binary_id, {t.bb_rva}) }

\* C7 as claimed: after the pipeline every new block has a bb_attributed_to row,
\* unique or shared.
C7_EveryNewBlockAttributed ==
    pc = "done" =>
      \A l \in NewRows :
        \E a \in AttributionRows(l.binary_id, l.bb_rva) : a.is_shared \in {0, 1}

\* C7 amended: after the pipeline a new block that some frontier target reaches in
\* G_B has exactly one bb_attributed_to row, unique or shared; a new block that no
\* frontier target reaches has none.
C7_NewBlockAttributedIffReached ==
    pc = "done" =>
      \A l \in NewRows :
        IF Reachers(l.binary_id, l.bb_rva) # {}
        THEN /\ Cardinality(AttributionRows(l.binary_id, l.bb_rva)) = 1
             /\ \A a \in AttributionRows(l.binary_id, l.bb_rva) : a.is_shared \in {0, 1}
        ELSE AttributionRows(l.binary_id, l.bb_rva) = {}

\* the block lies on a loop of G_B whose blocks are all new
OnLoopOfNewBlocks(l) ==
    l.bb_rva \in PathClosureThroughNew(l.binary_id,
                    { e.dst_bb_rva : e \in { x \in graph_B_edges :
                        x.binary_id = l.binary_id /\ x.src_bb_rva = l.bb_rva } }
                      \cap { n.bb_rva : n \in { y \in NewRows : y.binary_id = l.binary_id } })

\* A loop of new blocks that is attributed, beside a new block left without row.
C7_Witness ==
    /\ pc = "done"
    /\ \E l \in NewRows : OnLoopOfNewBlocks(l) /\ AttributionRows(l.binary_id, l.bb_rva) # {}
    /\ \E l \in NewRows : AttributionRows(l.binary_id, l.bb_rva) = {}

\* C8: after compute_reachability the rows of a frontier target f are exactly the
\* new blocks on directed paths of graph_B_edges from f (f included), through
\* blocks new or not; every row belongs to a frontier target.
C8_ReachabilityIsPathClosure ==
    AfterReachability =>
      /\ \A t \in frontier_targets :
            ReachedFrom(t.binary_id, t.bb_rva)
              = { n \in PathClosure(t.binary_id, {t.bb_rva}) :
                    \E l \in NewRows : l.binary_id = t.binary_id /\ l.bb_rva = n }
      /\ \A r \in frontier_reachability :
            \E t \in frontier_targets :
               t.binary_id = r.binary_id /\ t.bb_rva = r.frontier_bb_rva

\* A frontier target on a cycle of G_B that reaches a new block only through a
\* block that is not new.
C8_Witness ==
    /\ pc = "attribution"
    /\ \E t \in frontier_targets :
          /\ t.bb_rva \in PathClosure(t.binary_id, Adjacency(t.binary_id, t.bb_rva))
          /\ \E n \in ReachedFrom(t.binary_id, t.bb_rva) :
                n \notin PathClosureThroughNew(t.binary_id, {t.bb_rva})

\* rva lies in [bb_rva, bb_rva + (bb_end_va - bb_start_va)] of block b
InInclusiveRange(b, rva) == b.bb_rva <= rva /\ rva <= b.bb_rva + b.bb_size

\* another block of the binary starts after b and at or before rva
LaterBlockStartsBy(b, rva) ==
    \E o \in basic_blocks : o.binary_id = b.binary_id /\ b.bb_rva < o.bb_rva /\ o.bb_rva <= rva

BlockResult(b) == { [bb_rva |-> b.bb_rva, func_id |-> b.func_id] }

\* the calls of the resolver that returned None, as the joins recorded them
UnresolvedCalls ==
    UNION { { <<m.binary_id[1], m.instruction_rva>> :
                m \in { x \in BagToSet(missing[S]) :
                          x.reason = "not_found_in_static_analysis" } } :
            S \in Samples }

C10_JoinedBlocksExist ==
    AfterExpansion =>
      \A S \in Samples : \A j \in joined[S] :
        \E b \in basic_blocks :
           b.binary_id = j.binary_id /\ b.bb_rva = j.bb_rva /\ b.func_id = j.func_id

\* Expansion walked a deterministic edge to an address without basic_blocks row
\* and on to a block that it added.
C10_Witness ==
    /\ pc = "report"
    /\ \E e \in cfg_edges :
          /\ ExactMatch(e.binary_id, e.dst_bb_rva) = {}
          /\ e.edge_kind \in DeterministicKinds
          /\ Successors(e.binary_id, e.src_bb_rva) = {e}
          /\ \E j \in joined["A"] : j.binary_id = e.binary_id /\ j.bb_rva = e.src_bb_rva
    /\ \E j \in joined["A"] :
          \A r \in cov_blocks["A"] : r.bb_rva # j.bb_rva

\* the block has a bb_labels row with in_B = 1 and a graph_B_nodes row
BCoveredNode(binary_id, bb_rva) ==
    /\ \E l \in bb_labels : l.binary_id = binary_id /\ l.bb_rva = bb_rva /\ l.in_B = 1
    /\ \E n \in graph_B_nodes : n.binary_id = binary_id /\ n.bb_rva = bb_rva

\* every graph_B_nodes row other than a super-root is a block with in_B = 1
NodesAreBCovered ==
    \A n \in graph_B_nodes :
      n.bb_rva # SuperRoot =>
        \E l \in bb_labels : l.binary_id = n.binary_id /\ l.bb_rva = n.bb_rva /\ l.in_B = 1

\* both endpoints of the edge, the super-root apart, are B-covered nodes
EndpointsAreBCovered(e) ==
    /\ e.src_bb_rva # SuperRoot => BCoveredNode(e.binary_id, e.src_bb_rva)
    /\ e.dst_bb_rva # SuperRoot => BCoveredNode(e.binary_id, e.dst_bb_rva)

\* C11 as claimed: after build_executed_graph every graph_B_nodes row with
\* bb_rva # -1 has in_B = 1, and every endpoint other than the super-root of every
\* graph_B_edges row, super_root edges included, is a block with in_B = 1 that is in
\* graph_B_nodes.
C11_GraphRestrictedToBCovered ==
    AfterGraph =>
      /\ NodesAreBCovered
      /\ \A e \in graph_B_edges : EndpointsAreBCovered(e)

\* C11 amended: every graph_B_nodes row with bb_rva # -1 has in_B = 1 and every
\* endpoint other than the super-root of every graph_B_edges row of a type other
\* than super_root is a block with in_B = 1 that is in graph_B_nodes; a super_root
\* edge leads from the super-root to a block with in_A = 1, and there is one to
\* every such block, whether or not B covers it.
C11_GraphRestrictedButForSuperRootEdges ==
    AfterGraph =>
      /\ NodesAreBCovered
      /\ \A e \in graph_B_edges :
            IF e.edge_type = "super_root"
            THEN /\ e.src_bb_rva = SuperRoot
                 /\ \E l \in bb_labels :
                       l.binary_id = e.binary_id /\ l.bb_rva = e.dst_bb_rva /\ l.in_A = 1
            ELSE EndpointsAreBCovered(e)
      /\ \A l \in bb_labels :
            l.in_A = 1 =>
              [binary_id |-> l.binary_id, src_bb_rva |-> SuperRoot, dst_bb_rva |-> l.bb_rva,
               edge_type |-> "super_root"] \in graph_B_edges

\* A graph with a static edge and an observed edge between B-covered blocks and a
\* super_root edge to a block that only A covered.
C11_Witness ==
    /\ pc = "frontier"
    /\ \E e \in graph_B_edges : e.edge_type \in {"cfg_fallthrough", "cfg_branch_unconditional",
                                                  "call_direct"}
    /\ \E e \in graph_B_edges : e.edge_type \in {"observed_conditional",
                                                  "observed_return_continuation"}
    /\ \E e \in graph_B_edges :
          /\ e.edge_type = "super_root"
          /\ \E l \in bb_labels : /\ l.binary_id = e.binary_id /\ l.bb_rva = e.dst_bb_rva
                                   /\ l.in_B = 0
          /\ ~BCoveredNode(e.binary_id, e.dst_bb_rva)

\* the CFG edge is the only row leaving its source and is fallthrough or unconditional
SoleDeterministicEdge(e) ==
    /\ e.edge_kind \in DeterministicKinds
    /\ Successors(e.binary_id, e.src_bb_rva) = {e}

\* When the loop over the start blocks of a binary ends, the loop-by-loop walk has
\* collected the set that NewlyDiscovered computes for the stage as a whole.
WalkComputesNewlyDiscovered ==
    (walk.at = "starts" /\ walk.queue = <<>> /\ walk.starts = {})
      => walk.newly_discovered = NewlyDiscovered(walk.sample, walk.binary_id)

\* C12: expand_deterministic_for_sample terminates on every static CFG, also when
\* its fallthrough and unconditional edges form cycles or self-loops: whenever main()
\* is in the expansion of a sample, it eventually leaves it.
C12_ExpansionTerminates ==
    /\ (pc = "expand_A") ~> (pc # "expand_A")
    /\ (pc = "expand_B") ~> (pc # "expand_B")

\* The expansion of sample A has ended after its walk entered a block whose only
\* CFG edge is a deterministic edge back to itself.
C12_Witness ==
    /\ pc = "join_B"
    /\ walk = NoWalk
    /\ \E e \in cfg_edges :
          /\ SoleDeterministicEdge(e)
          /\ e.src_bb_rva = e.dst_bb_rva
          /\ e.src_bb_rva \in CoveredBlocks("A", e.binary_id)
          /\ \A r \in cov_blocks["A"] : r.bb_rva # e.src_bb_rva

\* The CFG nodes of a binary reached from a node of `from` by a chain of edges each
\* of which is the sole edge leaving its source and is fallthrough or unconditional,
\* those of `from` included: the least set closed under such edges.
RECURSIVE DeterministicClosure(_, _)
DeterministicClosure(binary_id, from) ==
    LET step == from \cup { e.dst_bb_rva : e \in { x \in cfg_edges :
                               /\ x.binary_id = binary_id
                               /\ x.src_bb_rva \in from
                               /\ SoleDeterministicEdge(x) } }
    IN IF step = from THEN from ELSE DeterministicClosure(binary_id, step)

\* C13: every block that the expansion of a sample inserts is reached from a block
\* recorded before the expansion by a chain of CFG edges, each fallthrough or
\* branch_unconditional and each leaving a block with exactly one successor; a
\* block reached only through a conditional branch is not inserted.
C13_ExpansionFollowsDeterministicChains ==
    [][\A S \in Samples :
         pc = "expand_" \o S =>
           \A j \in joined'[S] \ joined[S] :
              j.bb_rva \in DeterministicClosure(j.binary_id, CoveredBlocks(S, j.binary_id))]_vars

\* The expansion of sample A has inserted a block, and has left out a block of the
\* master store that a recorded or inserted block reaches by a conditional branch.
C13_Witness ==
    /\ pc = "join_B"
    /\ \E j \in joined["A"] : \A r \in cov_blocks["A"] : r.bb_rva # j.bb_rva
    /\ \E e \in cfg_edges :
          /\ e.edge_kind = "branch_conditional"
          /\ e.src_bb_rva \in CoveredBlocks("A", e.binary_id)
          /\ e.dst_bb_rva \notin CoveredBlocks("A", e.binary_id)
          /\ ExactMatch(e.binary_id, e.dst_bb_rva) # {}

\* the blocks that the join of a sample records: the blocks of basic_blocks that
\* the coverage keys of the mapped modules resolve to
RecordedBlocks(S) ==
    UNION { { <<c[1], b.bb_rva>> : b \in LookupMaster(c[1], c[2]) } : c \in ResolverCalls(S) }

\* the recorded blocks and every block of basic_blocks in their deterministic closure
RecordedAndDeterministicallyReached(S) ==
    RecordedBlocks(S)
      \cup UNION { { <<binary_id, n>> :
                       n \in { m \in DeterministicClosure(binary_id,
                                        { k[2] : k \in { r \in RecordedBlocks(S) :
                                                            r[1] = binary_id } }) :
                                 ExactMatch(binary_id, m) # {} } } :
                   binary_id \in { k[1] : k \in RecordedBlocks(S) } }

\* main() is past the expansion of the sample
ExpansionDone(S) ==
    \/ S = "A" /\ pc \in {"join_B", "expand_B"}
    \/ AfterExpansion

\* C14: after the expansion of a sample its joined table holds the recorded blocks
\* and every block of basic_blocks obtained from a recorded block by repeatedly
\* following the sole outgoing CFG edge of the current block while that edge is
\* fallthrough or branch_unconditional, and nothing else; a block with two or more
\* successors is added when reached and nothing is added through it.
C14_JoinedIsDeterministicClosure ==
    \A S \in Samples :
      ExpansionDone(S) => JoinedKeys(S) = RecordedAndDeterministicallyReached(S)

\* The example of the specification: recorded {10, 40} gives {10, 20, 30, 40}.
C14_Witness ==
    /\ pc = "join_B"
    /\ cfg_edges = ScenarioCfg
    /\ { r.bb_rva : r \in cov_blocks["A"] } = {10, 40}
    /\ JoinedKeys("A") = { <<1, 10>>, <<1, 20>>, <<1, 30>>, <<1, 40>> }

\* C15: a second invocation of the analyzer on a store that already holds the output
\* of a complete run ends normally and leaves every derived table and the
\* missing-coverage report as the first run left them.
C15_RerunReproducesOutput ==
    [][run > 1 =>
         /\ pc' # "exit_1"
         /\ derived' = derived
         /\ (missing_report # Null /\ missing_report' # Null) => missing_report' = missing_report]_vars

\* C16: after the mapping stage module_binary_map relates modules and binaries one to
\* one (no module has two binaries, no binary has two modules), and a module has a
\* row exactly when an analyzed binary carries its sha256 hash.
C16_ModuleMapIsBijection ==
    (pc \notin {"start", "create", "map"} /\ ~MapRaises) =>
       /\ \A r1, r2 \in module_binary_map :
             (r1.module_id = r2.module_id) <=> (r1.binary_id = r2.binary_id)
       /\ \A m \in modules :
             (BinaryOfModule(m.id) # {})
               <=> (\E b \in analyzed_binaries : b.sha256_hash = m.sha256_hash)

\* the mapping stage has run and has not raised
MappingDone == pc \notin {"start", "create", "map"} /\ ~MapRaises

\* C17: when the modules table has no module whose hash an analyzed binary carries,
\* the run ends with exit status 1 at the mapping stage: no join, expansion, label,
\* graph, frontier, reachability or attribution stage has written anything and no
\* missing-coverage report exists.
C17_NoMappedModuleStopsTheRun ==
    (MappingDone /\ ModuleMapping = {}) =>
       /\ pc = "exit_1"
       /\ module_binary_map = {}
       /\ rva_to_bb_cache = {}
       /\ joined = [S \in Samples |-> {}]
       /\ missing = [S \in Samples |-> EmptyBag]
       /\ bb_labels = {} /\ graph_B_nodes = {} /\ graph_B_edges = {}
       /\ frontier_edges = {} /\ frontier_targets = {}
       /\ frontier_reachability = {} /\ frontier_attribution = {}
       /\ bb_attributed_to = {}
       /\ missing_report = Null

\* The run has ended at the mapping stage on a store with modules and coverage rows,
\* none of the modules having an analyzed binary.
C17_Witness ==
    /\ pc = "exit_1"
    /\ MappingDone
    /\ modules # {}
    /\ ModuleMapping = {}
    /\ cov_blocks["A"] # {}

\* modules with and modules without an analyzed binary
PartlyMapped == ModuleMapping # {} /\ UnmappedModules # {}

\* the blocks of basic_blocks that the coverage keys of the mapped modules resolve to
BlocksOfMappedModules(S) ==
    UNION { UNION { { <<mm.binary_id, b.bb_rva>> : b \in LookupMaster(mm.binary_id, k[2]) } :
                    mm \in { x \in ModuleMapping : x.module_id = k[1] } } :
            k \in CoverageKeys(S) }

\* the coverage keys of the modules that have no analyzed binary
KeysOfUnmappedModules(S) ==
    { k \in CoverageKeys(S) : \E m \in UnmappedModules : m.id = k[1] }

IsObserved(edge_type) == edge_type \in {"observed_conditional", "observed_return_continuation"}

\* C18: when some modules are mapped and some are not, the run goes on; the joined
\* table of a sample holds, after its join, the blocks of the mapped modules only;
\* every observed edge of graph_B_edges comes from a cov_B_edges row of a mapped
\* module; every distinct (module, rva) key of an unmapped module has exactly one
\* entry in the missing-coverage report of its sample, with reason module_not_mapped,
\* and the unmapped modules are listed in unmapped_modules.
C18_UnmappedModulesAreDroppedAndReported ==
    (MappingDone /\ PartlyMapped) =>
       /\ (run = 1 /\ pc = "exit_1") => \E t \in MasterTables \cup InputTables :
                               t \notin master_tables \cup cov_tables
       /\ \A S \in Samples :
             (run = 1 /\ pc = "expand_" \o S) =>
                /\ JoinedKeys(S) = BlocksOfMappedModules(S)
                /\ \A k \in KeysOfUnmappedModules(S) :
                      Cardinality({ x \in BagToSet(missing[S]) : /\ x.module_id = k[1]
                                                         /\ x.instruction_rva = k[2] }) = 1
       /\ AfterGraph =>
             \A g \in { x \in graph_B_edges : IsObserved(x.edge_type) } :
                \E e \in cov_edges["B"] : \E mm \in ModuleMapping :
                   /\ mm.module_id = e.module_id
                   /\ mm.binary_id = g.binary_id
                   /\ \E b \in LookupMaster(mm.binary_id, e.src_bb_rva) : b.bb_rva = g.src_bb_rva
                   /\ \E b \in LookupMaster(mm.binary_id, e.dst_bb_rva) : b.bb_rva = g.dst_bb_rva
       /\ missing_report # Null =>
             /\ UnmappedModules \subseteq missing_report[1].unmapped_modules
             /\ \A S \in Samples : \A k \in KeysOfUnmappedModules(S) :
                   LET entries == { x \in BagToSet(missing_report[1]["sample_" \o S]) :
                                      /\ x.module_id = k[1]
                                      /\ x.instruction_rva = k[2] }
                   IN /\ Cardinality(entries) = 1
                      /\ \A x \in entries : x.reason = "module_not_mapped"

\* A complete run on a store in which a mapped module contributed a joined block and
\* an unmapped module has an edge row in sample B.
C18_Witness ==
    /\ pc = "done"
    /\ PartlyMapped
    /\ joined["A"] # {}
    /\ \E e \in cov_edges["B"] : \E m \in UnmappedModules : m.id = e.module_id
    /\ \E x \in BagToSet(missing_report[1].sample_B) : x.reason = "module_not_mapped"

\* a store file, a table of the master store or an input table of the coverage store
\* is absent
ConfigurationError ==
    \/ files # StoreFiles
    \/ master_tables # MasterTables
    \/ ~(InputTables \subseteq cov_tables)

\* C19: when an input file or an input table is missing the run ends with a nonzero
\* exit status before anything is written: it does not complete, no derived table
\* is created, no derived row is stored and no report is written.
C19_ConfigurationErrorStopsBeforeWrites ==
    ConfigurationError =>
       /\ pc # "done"
       /\ cov_tables \cap DerivedTables = {}
       /\ module_binary_map = {}
       /\ rva_to_bb_cache = {}
       /\ joined = [S \in Samples |-> {}]
       /\ bb_labels = {} /\ graph_B_nodes = {} /\ graph_B_edges = {}
       /\ missing_report = Null

\* the step is a stage of the pipeline raising an exception
StageRaises ==
    /\ pc \notin {"start", "exit_1"}
    /\ ~(pc = "map" /\ ~MapRaises)
    /\ pc' = "exit_1"

\* C20: when a stage raises, the run ends with exit status 1 and nothing runs after
\* it; the derived tables are as the last commit left them: what the earlier stages
\* committed is kept, what the raising stage wrote without committing is not.
C20_RaisingStageKeepsCommittedWritesOnly ==
    [][/\ StageRaises => (derived' = derived /\ missing_report' = missing_report)
       /\ pc = "exit_1" => pc' = "exit_1"]_vars

\* The graph stage raised on the absent table call_edges_static after it had inserted
\* nodes and super_root edges: the joined tables and bb_labels of the earlier stages
\* are stored, the nodes and edges are not.
C20_Witness ==
    /\ pc = "exit_1"
    /\ "call_edges_static" \notin master_tables
    /\ joined["A"] # {}
    /\ bb_labels # {}
    /\ GraphNodeRows # {}
    /\ graph_B_nodes = {}
    /\ graph_B_edges = {}

\* the inputs of the scenario "simple unlock"
SimpleUnlockInputs ==
    /\ basic_blocks = BranchBlocks({100, 200, 300, 400})
    /\ cfg_edges = UnlockCfg
    /\ EdgeRow(10, 100, 300) \in cov_edges["B"]

\* C22: in the scenario "simple unlock", with the transition 100->300 observed in B,
\* the completed pipeline has is_new = {300}, the single frontier edge 100->300 (not
\* a super-root edge), the frontier target 300 classified strong, and 300 attributed
\* to frontier 300 alone (is_shared = 0).
C22_SimpleUnlock ==
    (pc = "done" /\ SimpleUnlockInputs) =>
       /\ { l.bb_rva : l \in NewRows } = {300}
       /\ { <<e.src_bb_rva, e.dst_bb_rva>> : e \in frontier_edges } = { <<100, 300>> }
       /\ Cardinality(frontier_edges) = 1
       /\ \A e \in frontier_edges : ~IsSuperRootType(e.edge_type)
       /\ { <<t.bb_rva, t.frontier_type>> : t \in frontier_targets } = { <<300, "strong">> }
       /\ bb_attributed_to = { [binary_id |-> 1, new_bb_rva |-> 300,
                                frontier_bb_rva |-> Some(300), is_shared |-> 0] }

\* The pipeline has completed on the scenario "simple unlock".
C22_Witness ==
    /\ pc = "done"
    /\ SimpleUnlockInputs
    /\ frontier_targets # {}

\* the inputs of the scenario "shared attribution"
SharedAttributionInputs ==
    /\ basic_blocks = BranchBlocks({100, 200, 300, 400, 500})
    /\ cfg_edges = SharedCfg
    /\ cov_edges["B"] = BranchTransitions

\* C21 as stated: in the scenario "shared attribution" the completed pipeline has a
\* bb_attributed_to row for 500 with is_shared = 1 and 300 uniquely attributed.
C21_SharedAttribution ==
    (pc = "done" /\ SharedAttributionInputs) =>
       /\ \E r \in bb_attributed_to : r.new_bb_rva = 500 /\ r.is_shared = 1
       /\ \E r \in bb_attributed_to : r.new_bb_rva = 300 /\ r.is_shared = 0

\* C21, amended: in the scenario "shared attribution" the expansion of sample A adds
\* 500 through the fallthrough edge 200->500, so 500 is labelled in_A = 1 and not
\* new and has no bb_attributed_to row; 300 is the only new block and is attributed
\* to frontier 300 alone.
C21_SharedAttributionAfterExpansion ==
    (pc = "done" /\ SharedAttributionInputs) =>
       /\ \E l \in bb_labels : l.bb_rva = 500 /\ l.in_A = 1 /\ l.in_B = 1 /\ l.is_new = 0
       /\ \A r \in bb_attributed_to : r.new_bb_rva # 500
       /\ bb_attributed_to = { [binary_id |-> 1, new_bb_rva |-> 300,
                                frontier_bb_rva |-> Some(300), is_shared |-> 0] }

\* The pipeline has completed on the scenario "shared attribution"; sample A did not
\* record 500 and its joined table holds it.
C21_Witness ==
    /\ pc = "done"
    /\ SharedAttributionInputs
    /\ \A r \in cov_blocks["A"] : r.bb_rva # 500
    /\ \E j \in joined["A"] : j.bb_rva = 500

\* the basic block of a binary that contains an address: the block whose inclusive
\* range holds it and after which no other block starts at or before it
Containing(binary_id, rva) ==
    { b \in basic_blocks : /\ b.binary_id = binary_id
                            /\ InInclusiveRange(b, rva)
                            /\ ~LaterBlockStartsBy(b, rva) }

\* the edge type the rule gives a transition recorded with source src_rva whose
\* containing block starts at bb_rva
TypeByRule(src_rva, bb_rva) ==
    IF src_rva = bb_rva THEN "observed_conditional" ELSE "observed_return_continuation"

\* C23: after build_executed_graph every observed edge of graph_B_edges comes from a
\* cov_B_edges row of a mapped module, runs from the block containing the recorded
\* source RVA to the block containing the recorded destination RVA, and is typed
\* observed_conditional exactly when the recorded source RVA is the start of its
\* block and observed_return_continuation exactly when it lies inside the block;
\* and every row whose two containing blocks are nodes of G_B has its edge.
C23_ObservedEdgesRunBetweenContainingBlocks ==
    AfterGraph =>
       /\ \A g \in { x \in graph_B_edges : IsObserved(x.edge_type) } :
             \E e \in cov_edges["B"] :
                /\ g.binary_id \in BinaryOfModule(e.module_id)
                /\ \E b \in Containing(g.binary_id, e.src_bb_rva) : b.bb_rva = g.src_bb_rva
                /\ \E b \in Containing(g.binary_id, e.dst_bb_rva) : b.bb_rva = g.dst_bb_rva
                /\ (g.edge_type = "observed_conditional") <=> (e.src_bb_rva = g.src_bb_rva)
                /\ (g.edge_type = "observed_return_continuation")
                      <=> (e.src_bb_rva # g.src_bb_rva)
       /\ \A e \in cov_edges["B"] : \A binary_id \in BinaryOfModule(e.module_id) :
             \A sb \in Containing(binary_id, e.src_bb_rva) :
               \A db \in Containing(binary_id, e.dst_bb_rva) :
                  (/\ \E n \in graph_B_nodes : n.binary_id = binary_id /\ n.bb_rva = sb.bb_rva
                   /\ \E n \in graph_B_nodes : n.binary_id = binary_id /\ n.bb_rva = db.bb_rva)
                    => [binary_id |-> binary_id, src_bb_rva |-> sb.bb_rva,
                        dst_bb_rva |-> db.bb_rva,
                        edge_type |-> TypeByRule(e.src_bb_rva, sb.bb_rva)] \in graph_B_edges

\* The example of the specification: block 0x1000 of size 0x20, a transition recorded
\* with source 0x101c, and the observed_return_continuation edge from 0x1000.
C23_Witness ==
    /\ AfterGraph
    /\ \E b \in basic_blocks : b.bb_rva = 4096 /\ b.bb_size = 32
    /\ EdgeRow(10, 4124, 8192) \in cov_edges["B"]
    /\ [binary_id |-> 1, src_bb_rva |-> 4096, dst_bb_rva |-> 8192,
        edge_type |-> "observed_return_continuation"] \in graph_B_edges

\* the missing-blocks report lists the address of a mapped module as unresolved in B
ReportedUnresolvedInB(module_id, rva) ==
    /\ missing_report # Null
    /\ \E x \in BagToSet(missing_report[1].sample_B) :
          /\ x.module_id = module_id
          /\ x.instruction_rva = rva
          /\ x.reason = "not_found_in_static_analysis"

\* C29: after build_executed_graph, for every cov_B_edges row of a mapped module:
\* when both recorded RVAs have a containing block, both blocks are in
\* cov_B_blocks_joined and in graph_B_nodes and the observed edge is in
\* graph_B_edges; an RVA without containing block is listed in sample_B of the
\* missing-blocks report.
C29_ResolvedObservedEdgesAreAdded ==
    AfterGraph =>
       \A e \in cov_edges["B"] : \A binary_id \in BinaryOfModule(e.module_id) :
          LET srcs == Containing(binary_id, e.src_bb_rva)
              dsts == Containing(binary_id, e.dst_bb_rva)
          IN /\ \A sb \in srcs : \A db \in dsts :
                   /\ <<binary_id, sb.bb_rva>> \in JoinedKeys("B")
                   /\ <<binary_id, db.bb_rva>> \in JoinedKeys("B")
                   /\ \E n \in graph_B_nodes : n.binary_id = binary_id /\ n.bb_rva = sb.bb_rva
                   /\ \E n \in graph_B_nodes : n.binary_id = binary_id /\ n.bb_rva = db.bb_rva
                   /\ \E g \in graph_B_edges :
                         /\ g.binary_id = binary_id
                         /\ g.src_bb_rva = sb.bb_rva
                         /\ g.dst_bb_rva = db.bb_rva
                         /\ IsObserved(g.edge_type)
             /\ srcs = {} => ReportedUnresolvedInB(e.module_id, e.src_bb_rva)
             /\ dsts = {} => ReportedUnresolvedInB(e.module_id, e.dst_bb_rva)

\* The graph stage has added the edge of a transition with both endpoints resolved
\* and has skipped one whose destination lies in no block; the report lists it.
C29_Witness ==
    /\ AfterGraph
    /\ \E e \in cov_edges["B"] : \E binary_id \in BinaryOfModule(e.module_id) :
          /\ Containing(binary_id, e.src_bb_rva) # {}
          /\ Containing(binary_id, e.dst_bb_rva) # {}
          /\ \E g \in graph_B_edges : g.binary_id = binary_id /\ IsObserved(g.edge_type)
    /\ \E e \in cov_edges["B"] : \E binary_id \in BinaryOfModule(e.module_id) :
          /\ Containing(binary_id, e.dst_bb_rva) = {}
          /\ ReportedUnresolvedInB(e.module_id, e.dst_bb_rva)

\* the entries of the list returned for sample S that name the key k
EntriesOf(S, k) ==
    { x \in BagToSet(missing[S]) : x.module_id = k[1] /\ x.instruction_rva = k[2] }

\* C30: when join_coverage_to_blocks has returned for sample S, every distinct
\* (module_id, rva) of the blocks table and of the two endpoints of the edges table
\* either has its containing block in cov_S_blocks_joined and no entry in the
\* returned list, or has no containing block and exactly one entry, appended once,
\* with reason module_not_mapped when the module is not mapped and
\* not_found_in_static_analysis otherwise; the list has no other entry; and
\* total_missing of the report is the number of entries of sample_A plus the number
\* of entries of sample_B.
C30_JoinPartitionsItsInput ==
    /\ \A S \in Samples :
          (pc = "expand_" \o S) =>
             /\ \A k \in CoverageKeys(S) :
                   LET blocks == UNION { Containing(b, k[2]) : b \in BinaryOfModule(k[1]) }
                   IN IF blocks # {}
                      THEN /\ \A b \in blocks : <<b.binary_id, b.bb_rva>> \in JoinedKeys(S)
                           /\ EntriesOf(S, k) = {}
                      ELSE /\ Cardinality(EntriesOf(S, k)) = 1
                           /\ \A x \in EntriesOf(S, k) :
                                 /\ CopiesIn(x, missing[S]) = 1
                                 /\ x.reason = IF BinaryOfModule(k[1]) = {}
                                               THEN "module_not_mapped"
                                               ELSE "not_found_in_static_analysis"
             /\ \A x \in BagToSet(missing[S]) :
                   <<x.module_id, x.instruction_rva>> \in CoverageKeys(S)
    /\ missing_report # Null =>
          missing_report[1].total_missing
             = Cardinality(BagToSet(missing_report[1].sample_A))
                 + Cardinality(BagToSet(missing_report[1].sample_B))

\* Both joins have returned and the report is written: one address of B resolved to
\* a block of the joined table, another, recorded more than once, is an entry of
\* the list.
C30_Witness ==
    /\ missing_report # Null
    /\ missing_report[1].total_missing >= 1
    /\ \E k \in CoverageKeys("B") :
          /\ BinaryOfModule(k[1]) # {}
          /\ \E b \in BinaryOfModule(k[1]) : Containing(b, k[2]) # {}
    /\ \E k \in CoverageKeys("B") :
          /\ Occurrences("B", k) >= 2
          /\ EntriesOf("B", k) # {}

\* the order in which main() calls the stages: a stage that returns is followed by
\* the next one
StageOrder ==
    { <<"start", "create">>, <<"create", "map">>, <<"map", "join_A">>,
      <<"join_A", "expand_A">>, <<"expand_A", "join_B">>, <<"join_B", "expand_B">>,
      <<"expand_B", "report">>, <<"report", "labels">>, <<"labels", "graph">>,
      <<"graph", "frontier">>, <<"frontier", "reachability">>,
      <<"reachability", "attribution">>, <<"attribution", "scores">>,
      <<"scores", "done">> }

\* the blocks the expansion added to the joined table of a sample
AddedByExpansion(S) == JoinedKeys(S) \ RecordedBlocks(S)

\* C27: the stages run in the order of main(): a step of the run either ends it with
\* exit status 1, starts a further invocation, or passes from a stage to the next
\* one of the order; the joined tables change in the joins and expansions only and
\* are complete when compute_diff_labels starts; bb_labels, the graph, the frontier
\* tables, frontier_reachability and the attribution tables are each written by
\* their own stage only, which starts when the one before has returned.  So after
\* compute_diff_labels a block that the expansion added to sample A has in_A = 1
\* and is_new = 0, also when sample B recorded it and sample A did not.
C27_StagesRunInOrder ==
    /\ [][/\ pc' # pc => \/ pc' = "exit_1"
                         \/ pc = "done" /\ pc' = "start"
                         \/ <<pc, pc'>> \in StageOrder
          /\ joined' # joined => pc \in {"join_A", "expand_A", "join_B", "expand_B"}
          /\ pc' = "labels" => pc = "report" /\ joined' = joined
          /\ bb_labels' # bb_labels => pc = "labels" /\ pc' = "graph"
          /\ <<graph_B_nodes, graph_B_edges>>' # <<graph_B_nodes, graph_B_edges>>
                => pc = "graph" /\ pc' = "frontier" /\ bb_labels' = bb_labels
          /\ <<frontier_edges, frontier_targets>>' # <<frontier_edges, frontier_targets>>
                => pc = "frontier" /\ pc' = "reachability"
          /\ frontier_reachability' # frontier_reachability
                => pc = "reachability" /\ pc' = "attribution"
          /\ <<frontier_attribution, bb_attributed_to>>'
                 # <<frontier_attribution, bb_attributed_to>>
                => pc = "attribution" /\ pc' = "scores"]_vars
    /\ [](AfterLabels =>
            \A k \in AddedByExpansion("A") :
               \E l \in bb_labels : /\ l.binary_id = k[1]
                                    /\ l.bb_rva = k[2]
                                    /\ l.in_A = 1
                                    /\ l.is_new = 0)

\* compute_diff_labels has run; the expansion added to sample A a block that only
\* sample B recorded, and the block is labelled in_A = 1, in_B = 1, not new.
C27_Witness ==
    /\ AfterLabels
    /\ \E k \in AddedByExpansion("A") \cap RecordedBlocks("B") :
          \E l \in bb_labels : /\ l.binary_id = k[1]
                               /\ l.bb_rva = k[2]
                               /\ l.in_A = 1
                               /\ l.in_B = 1
                               /\ l.is_new = 0

AfterAttribution == pc \in {"scores", "done"}

\* the frontier targets of the binary other than f from which a path of G_B leads to f
OtherFrontiersReaching(binary_id, f) ==
    { g \in FrontierTargetsOf(binary_id) \ {f} : f \in PathClosure(binary_id, {g}) }

\* C28: after compute_attribution, for every frontier target f: frontier_reachability
\* holds (binary_id, f, f); frontier_attribution has a row of f and
\* bb_attributed_to a row of the block f; that row is unique (is_shared = 0,
\* frontier_bb_rva = f) exactly when no other frontier target reaches f and shared
\* (is_shared = 1, frontier_bb_rva NULL) otherwise.  And a block attributed uniquely
\* to a frontier other than itself is not a frontier target.
C28_FrontierTargetReachesItself ==
    AfterAttribution =>
       /\ \A t \in frontier_targets :
             /\ [binary_id |-> t.binary_id, frontier_bb_rva |-> t.bb_rva,
                 new_bb_rva |-> t.bb_rva] \in frontier_reachability
             /\ \E a \in frontier_attribution :
                   a.binary_id = t.binary_id /\ a.frontier_bb_rva = t.bb_rva
             /\ Cardinality(AttributionRows(t.binary_id, t.bb_rva)) = 1
             /\ \A r \in AttributionRows(t.binary_id, t.bb_rva) :
                   IF OtherFrontiersReaching(t.binary_id, t.bb_rva) = {}
                   THEN r.is_shared = 0 /\ r.frontier_bb_rva = Some(t.bb_rva)
                   ELSE r.is_shared = 1 /\ r.frontier_bb_rva = Null
       /\ \A r \in bb_attributed_to :
             (r.is_shared = 0 /\ r.frontier_bb_rva # Some(r.new_bb_rva))
                => r.new_bb_rva \notin FrontierTargetsOf(r.binary_id)

\* compute_attribution has run: a frontier target that another frontier target
\* reaches is shared, and one that none reaches is attributed to itself.
C28_Witness ==
    /\ AfterAttribution
    /\ \E t \in frontier_targets :
          /\ OtherFrontiersReaching(t.binary_id, t.bb_rva) # {}
          /\ \E r \in AttributionRows(t.binary_id, t.bb_rva) : r.is_shared = 1
    /\ \E t \in frontier_targets :
          /\ OtherFrontiersReaching(t.binary_id, t.bb_rva) = {}
          /\ \E r \in AttributionRows(t.binary_id, t.bb_rva) :
                r.is_shared = 0 /\ r.frontier_bb_rva = Some(t.bb_rva)

\* the functions owning a frontier target
FrontierOwners == { <<t.binary_id, t.func_id>> : t \in frontier_targets }

\* the frontier targets a function owns
TargetsOwned(binary_id, func_id) ==
    { t \in frontier_targets : t.binary_id = binary_id /\ t.func_id = func_id }

\* the new blocks on a path of G_B from a frontier target the function owns
NewReachableFromOwned(binary_id, func_id) ==
    { l.bb_rva : l \in { x \in NewRows :
        /\ x.binary_id = binary_id
        /\ x.bb_rva \in PathClosure(binary_id,
                            { t.bb_rva : t \in TargetsOwned(binary_id, func_id) }) } }

\* C25: when the pipeline has completed, function_unlock_scores has exactly one row
\* for every function owning a frontier target and no other row; in the row of a
\* function total_new_bb is the number of distinct new blocks reachable from its
\* frontier targets, unique_new_bb and shared_new_bb count those of them attributed
\* to one frontier and those shared and add up to total_new_bb, frontier_count is
\* the number of frontier targets the function owns, and strong_frontier_count and
\* weak_frontier_count count the strong and the weak ones and add up to it.
C25_FunctionScores ==
    pc = "done" =>
       /\ { <<r.binary_id, r.func_id>> : r \in function_unlock_scores } = FrontierOwners
       /\ \A r \in function_unlock_scores :
             LET owned == TargetsOwned(r.binary_id, r.func_id)
                 reached == NewReachableFromOwned(r.binary_id, r.func_id)
             IN /\ \A q \in function_unlock_scores :
                      (q.binary_id = r.binary_id /\ q.func_id = r.func_id) => q = r
                /\ r.total_new_bb = Cardinality(reached)
                /\ r.unique_new_bb =
                      Cardinality({ n \in reached :
                         \E a \in AttributionRows(r.binary_id, n) : a.is_shared = 0 })
                /\ r.shared_new_bb =
                      Cardinality({ n \in reached :
                         \E a \in AttributionRows(r.binary_id, n) : a.is_shared = 1 })
                /\ r.unique_new_bb + r.shared_new_bb = r.total_new_bb
                /\ r.frontier_count = Cardinality(owned)
                /\ r.strong_frontier_count
                      = Cardinality({ t \in owned : t.frontier_type = "strong" })
                /\ r.weak_frontier_count
                      = Cardinality({ t \in owned : t.frontier_type = "weak" })
                /\ r.strong_frontier_count + r.weak_frontier_count = r.frontier_count

\* The pipeline has completed: a function owns two frontier targets that both reach
\* one new block, and its row counts the block once.
C25_Witness ==
    /\ pc = "done"
    /\ \E r \in function_unlock_scores :
          /\ r.frontier_count = 2
          /\ \E t1, t2 \in TargetsOwned(r.binary_id, r.func_id) :
                /\ t1 # t2
                /\ \E n \in NewReachableFromOwned(r.binary_id, r.func_id) :
                      /\ n \in PathClosure(r.binary_id, {t1.bb_rva})
                      /\ n \in PathClosure(r.binary_id, {t2.bb_rva})
          /\ r.total_new_bb = Cardinality(NewReachableFromOwned(r.binary_id, r.func_id))

\* the frontier edges that are not super-root edges
CallsiteEdges == { fe \in frontier_edges : ~IsSuperRootType(fe.edge_type) }

\* the key of a frontier edge: binary, source block, function of the destination block
KeyOfEdge(fe) ==
    <<fe.binary_id, fe.src_bb_rva,
      (CHOOSE l \in LabelOf(fe.binary_id, fe.dst_bb_rva) : TRUE).func_id>>

\* the frontier_attribution row of the destination of a frontier edge
AttributionOfTarget(fe) ==
    CHOOSE a \in frontier_attribution :
       a.binary_id = fe.binary_id /\ a.frontier_bb_rva = fe.dst_bb_rva

\* the sum of a count of the destination frontier targets over a set of frontier edges
RECURSIVE SumOverEdges(_, _)
SumOverEdges(edges, count) ==
    IF edges = {}
    THEN 0
    ELSE LET fe == CHOOSE x \in edges : TRUE
         IN AttributionOfTarget(fe)[count] + SumOverEdges(edges \ {fe}, count)

\* C26: when the pipeline has completed, callsite_unlock_scores has exactly one row
\* for every key (binary_id, src_bb_rva, dst_func_id) of a frontier edge that is not
\* a super-root edge and no other row; unique_new_bb, shared_new_bb and total_new_bb
\* of the row are the sums, over the frontier edges with that key, of
\* unique_new_bb_count, shared_new_bb_count and attributed_new_bb_count of the
\* frontier_attribution row of the edge's destination.  A super_root_orphan edge
\* gives no row: no row has the super-root as its source.
C26_CallsiteScores ==
    pc = "done" =>
       /\ { <<r.binary_id, r.src_bb_rva, r.dst_func_id>> : r \in callsite_unlock_scores }
             = { KeyOfEdge(fe) : fe \in CallsiteEdges }
       /\ \A r \in callsite_unlock_scores :
             LET edges == { fe \in CallsiteEdges :
                              KeyOfEdge(fe) = <<r.binary_id, r.src_bb_rva, r.dst_func_id>> }
             IN /\ \A q \in callsite_unlock_scores :
                      (/\ q.binary_id = r.binary_id
                       /\ q.src_bb_rva = r.src_bb_rva
                       /\ q.dst_func_id = r.dst_func_id) => q = r
                /\ r.unique_new_bb = SumOverEdges(edges, "unique_new_bb_count")
                /\ r.shared_new_bb = SumOverEdges(edges, "shared_new_bb_count")
                /\ r.total_new_bb = SumOverEdges(edges, "attributed_new_bb_count")
                /\ r.src_bb_rva # SuperRoot

\* The pipeline has completed: two frontier edges share a key and its row holds the
\* sum over both, and a super_root_orphan frontier edge has no row.
C26_Witness ==
    /\ pc = "done"
    /\ \E fe1, fe2 \in CallsiteEdges :
          /\ fe1 # fe2
          /\ KeyOfEdge(fe1) = KeyOfEdge(fe2)
          /\ \E r \in callsite_unlock_scores :
                /\ <<r.binary_id, r.src_bb_rva, r.dst_func_id>> = KeyOfEdge(fe1)
                /\ r.total_new_bb >= 2
    /\ \E fe \in frontier_edges : fe.edge_type = "super_root_orphan"

\* the digits of a sequence, right-aligned in a field of n digits, zeros to the left
InField(digits, n) ==
    [i \in 1..n |-> IF i + Len(digits) - n >= 1 THEN digits[i + Len(digits) - n] ELSE 0]

\* the digit values of a hexadecimal text, leading zeros kept
DigitsOf(text) == [i \in 1..Len(text) |-> HexValue(text[i])]

\* the text denotes a value below 2^64: every digit before the last sixteen is zero
Fits64(text) == \A i \in 1..(Len(text) - 16) : DigitsOf(text)[i] = 0

\* the high and the low 32 bits of the 64-bit value of a text, eight digits each
High32(text) == SubSeq(InField(DigitsOf(text), 16), 1, 8)
Low32(text) == SubSeq(InField(DigitsOf(text), 16), 9, 16)
Zero32 == [i \in 1..8 |-> 0]

\* a column value is a number below 2^32
Below2To32(v) == Len(v) <= 8 /\ (v = <<>> \/ Head(v) # 0)

\* the lines of the file of a sample that read name+hex: the name is what stands
\* before the last "+", the hex text what stands after it, both non-empty; with the
\* id of the name for a known module and no id for an unknown one
HexLines(S) ==
    UNION { LET line == StripLine(coverage_file[S][n])
                plus == { i \in 1..Len(line) : line[i] = "+" }
                last == CHOOSE i \in plus : \A j \in plus : j <= i
            IN IF plus = {} THEN {}
               ELSE IF last = 1 \/ last = Len(line) THEN {}
               ELSE IF \E j \in (last + 1)..Len(line) : line[j] \notin HexChars THEN {}
               ELSE { [name |-> SubSeq(line, 1, last - 1),
                       text |-> SubSeq(line, last + 1, Len(line))] } :
            n \in 1..Len(coverage_file[S]) }

KnownLines(S) == { l \in HexLines(S) : \E m \in module_name_to_id : m.name = l.name }
IdOf(l) == (CHOOSE m \in module_name_to_id : m.name = l.name).id

\* parse_coverage_file has returned for the sample
Parsed(S) == pc = "parsed" \/ (S = "A" /\ pc = "parse_B")

\* C24: when parse_coverage_file has returned for sample S, every line module+hex
\* of a known module whose value v is below 2^64 has, if the high 32 bits of v are
\* not zero, exactly one row in cov_S_edges with src_bb_rva = v >> 32 and
\* dst_bb_rva = v mod 2^32, and, if they are zero, exactly one row in cov_S_blocks
\* with bb_rva = v mod 2^32.  Every column is a number below 2^32.  When all values
\* of the file are below 2^64 the tables hold nothing else: every edge row comes
\* from a line of a known module with non-zero high bits, every block row from one
\* with zero high bits, so a line of the one kind gives no row of the other and a
\* line of an unknown module gives no row.
C24_ValueSplitIntoEdgeOrBlock ==
    \A S \in Samples :
      Parsed(S) =>
         /\ \A l \in { x \in KnownLines(S) : Fits64(x.text) } :
               IF High32(l.text) # Zero32
               THEN Cardinality({ e \in cov_edges[S] :
                       /\ e.module_id = IdOf(l)
                       /\ InField(e.src_bb_rva, 8) = High32(l.text)
                       /\ InField(e.dst_bb_rva, 8) = Low32(l.text) }) = 1
               ELSE Cardinality({ b \in cov_blocks[S] :
                       /\ b.module_id = IdOf(l)
                       /\ InField(b.bb_rva, 8) = Low32(l.text) }) = 1
         /\ \A e \in cov_edges[S] :
               Below2To32(e.src_bb_rva) /\ Below2To32(e.dst_bb_rva) /\ e.src_bb_rva # <<>>
         /\ \A b \in cov_blocks[S] : Below2To32(b.bb_rva)
         /\ (\A l \in KnownLines(S) : Fits64(l.text)) =>
               /\ \A e \in cov_edges[S] : \E l \in KnownLines(S) :
                     /\ IdOf(l) = e.module_id
                     /\ High32(l.text) # Zero32
                     /\ High32(l.text) = InField(e.src_bb_rva, 8)
                     /\ Low32(l.text) = InField(e.dst_bb_rva, 8)
               /\ \A b \in cov_blocks[S] : \E l \in KnownLines(S) :
                     /\ IdOf(l) = b.module_id
                     /\ High32(l.text) = Zero32
                     /\ Low32(l.text) = InField(b.bb_rva, 8)

\* Both files are parsed: a line of sample A with all 64 bits set gave the edge
\* row (0xffffffff, 0xffffffff), a line of an unknown module stands beside it, and
\* a line of sample B with zero high bits gave a block row.
C24_Witness ==
    /\ pc = "parsed"
    /\ \E l \in KnownLines("A") : Len(l.text) = 16 /\ High32(l.text) = [i \in 1..8 |-> 15]
    /\ \E e \in cov_edges["A"] : e.src_bb_rva = [i \in 1..8 |-> 15]
    /\ HexLines("A") \ KnownLines("A") # {}
    /\ cov_blocks["A"] = {}
    /\ cov_blocks["B"] # {}

====================================================================================
